---- MODULE Spec2Model ----
(***************************************************************************)
(* gloop: the recursive Form evaluator (src/src/core/core.ts), the         *)
(* response parser (src/src/tools/parser.ts), the danger gate              *)
(* (requiresConfirmation) and the spawn detector (task-mode.ts).           *)
(*                                                                         *)
(* A state of the model is a suspension point of run(): every action is    *)
(* the synchronous code that runs from one resolved await up to and        *)
(* including the next awaited effect.  Texts are sequences of pieces: a    *)
(* model reply is a sequence of markup tokens, a shell command a sequence  *)
(* of words, a tool-result blob one piece.                                 *)
(***************************************************************************)
EXTENDS Integers, Sequences, FiniteSets, TLC

VARIABLES
  status,     \* "idle" | "running" | "returned" | "aborted" | "threw" | "exited"
  input,      \* the user input handed to run()
  vocab,      \* the markup elements the model of this run writes
  stack,      \* forms still to be evaluated, the next eval_ entry first
  ctl,        \* what run() is inside of: eval_ dispatch, evalThink or evalInvoke
  history,    \* AIConversation.history
  trace,      \* every effect performed so far, in order
  toolCalls,  \* world.toolCalls
  aborted,    \* world.signal.aborted
  turns,      \* LLM requests made so far (provider call index)
  used        \* markup elements the model has emitted so far

vars == <<status, input, vocab, stack, ctl, history, trace, toolCalls, aborted, turns, used>>

(***************************************************************************)
(* Bounds of the model.                                                    *)
(***************************************************************************)
\* replies of one run that may carry tool calls
MaxToolTurns == 2
\* markup elements (tool calls, remember, forget) the model emits in one run
MaxElems == 3
MaxSegs == 4
MaxChunk == 2

CONTEXT_PRUNE_INTERVAL == 50

(***************************************************************************)
(* Small sequence helpers.                                                 *)
(***************************************************************************)
MapName(s) == [i \in 1..Len(s) |-> s[i].name]

RECURSIVE Flatten(_)
Flatten(ss) == IF ss = <<>> THEN <<>> ELSE Head(ss) \o Flatten(Tail(ss))

Last(s) == s[Len(s)]

(***************************************************************************)
(* FORMS (core.ts 21-95).  A continuation is defunctionalised: `then` of   *)
(* an Invoke names which of parseToForm's four closures it is, `acc` of a  *)
(* Spawn is the form chainSpawns closed over.                              *)
(***************************************************************************)
Nil == [tag |-> "nil"]
Think(in) == [tag |-> "think", input |-> in]
Invoke(calls, then) == [tag |-> "invoke", calls |-> calls, then |-> then]
Remember(content, then) == [tag |-> "remember", content |-> content, then |-> then]
Forget(content, then) == [tag |-> "forget", content |-> content, then |-> then]
Emit(text, then) == [tag |-> "emit", text |-> text, then |-> then]
Reboot(reason) == [tag |-> "reboot", reason |-> reason]
Done(summary) == [tag |-> "done", summary |-> summary]
SeqForm(forms) == [tag |-> "seq", forms |-> forms]
Install(source) == [tag |-> "install", source |-> source]
ListTools == [tag |-> "list-tools"]
Spawn(task, acc) == [tag |-> "spawn", task |-> task, acc |-> acc]

(***************************************************************************)
(* Tool calls.  rawArgs is a sequence of arguments, an argument a sequence *)
(* of words (a Bash command after shell splitting keeps its word order).   *)
(***************************************************************************)
Call(name, rawArgs) == [name |-> name, rawArgs |-> rawArgs]

\* call.rawArgs[0] ?? dflt
ArgOr(call, dflt) == IF Len(call.rawArgs) > 0 THEN call.rawArgs[1] ELSE dflt

(***************************************************************************)
(* Reply tokens.  "open" is <tools>, "close" is </tools>, "tool" one       *)
(* well-formed <tool>Name(args)</tool> element, "rem"/"forg" one           *)
(* <remember>..</remember> / <forget>..</forget> element, "prose" text     *)
(* without markup.                                                         *)
(***************************************************************************)
NoCall == Call("", <<>>)
Tok(t, call, m) == [t |-> t, call |-> call, m |-> m]
Prose == Tok("prose", NoCall, "")
Open == Tok("open", NoCall, "")
Close == Tok("close", NoCall, "")
ToolTok(call) == Tok("tool", call, "")
RemTok(m) == Tok("rem", NoCall, m)
ForgTok(m) == Tok("forg", NoCall, m)

HasTok(text, t) == \E i \in 1..Len(text) : text[i].t = t

(***************************************************************************)
(* parseResponse (parser.ts 12-63).  The first replace takes every         *)
(* <tools> ... </?tools> region, shortest first, left to right; what it    *)
(* leaves is searched for top-level <remember>, <forget> and bare <tool>.  *)
(***************************************************************************)
\* tokens inside <tools> regions (mode TRUE: the scan is inside a region)
RECURSIVE InnerTokens(_, _)
InnerTokens(text, inside) ==
  IF text = <<>> THEN <<>>
  ELSE LET tk == Head(text)
           rest == Tail(text)
       IN IF inside
          THEN IF tk.t \in {"open", "close"}
               THEN InnerTokens(rest, FALSE)
               ELSE <<tk>> \o InnerTokens(rest, TRUE)
          ELSE IF tk.t = "open" /\ (HasTok(rest, "open") \/ HasTok(rest, "close"))
               THEN InnerTokens(rest, TRUE)
               ELSE InnerTokens(rest, FALSE)

\* tokens the first replace leaves in `remaining`
RECURSIVE OuterTokens(_, _)
OuterTokens(text, inside) ==
  IF text = <<>> THEN <<>>
  ELSE LET tk == Head(text)
           rest == Tail(text)
       IN IF inside
          THEN IF tk.t \in {"open", "close"}
               THEN OuterTokens(rest, FALSE)
               ELSE OuterTokens(rest, TRUE)
          ELSE IF tk.t = "open" /\ (HasTok(rest, "open") \/ HasTok(rest, "close"))
               THEN OuterTokens(rest, TRUE)
               ELSE <<tk>> \o OuterTokens(rest, FALSE)

IsTool(tk) == tk.t = "tool"
IsRem(tk) == tk.t = "rem"
IsForg(tk) == tk.t = "forg"
IsClean(tk) == tk.t \notin {"tool", "rem", "forg"}

RECURSIVE MapCall(_)
MapCall(s) == IF s = <<>> THEN <<>> ELSE <<Head(s).call>> \o MapCall(Tail(s))
RECURSIVE MapM(_)
MapM(s) == IF s = <<>> THEN <<>> ELSE <<Head(s).m>> \o MapM(Tail(s))

\* variant: tool elements outside a container are dropped
BareTools_Ignored(remaining) == <<>>

\* bare <tool> elements of `remaining`, outside a <tools> wrapper (parser.ts 47-55)
BareTools(remaining) == MapCall(SelectSeq(remaining, IsTool))

parseResponse(text) ==
  LET inner == InnerTokens(text, FALSE)
      outer == OuterTokens(text, FALSE)
  IN [toolCalls |-> MapCall(SelectSeq(inner, IsTool)) \o BareTools(outer),
      remembers |-> MapM(SelectSeq(inner, IsRem)) \o MapM(SelectSeq(outer, IsRem)),
      forgets   |-> MapM(SelectSeq(inner, IsForg)) \o MapM(SelectSeq(outer, IsForg)),
      cleanText |-> SelectSeq(outer, IsClean)]

(***************************************************************************)
(* Spawn detection (task-mode.ts 24-75, 139-149; core.ts 169-173).  A      *)
(* command is the word sequence splitShellCommand returns for it.          *)
(***************************************************************************)
\* parseTaskRequestTokens: the task the flags name, "" when there is none
RECURSIVE parseTaskRequestTokens(_, _)
parseTaskRequestTokens(tokens, task) ==
  IF tokens = <<>> THEN task
  ELSE IF Head(tokens) = "--task" /\ Len(tokens) >= 2
       THEN parseTaskRequestTokens(Tail(Tail(tokens)), tokens[2])
  ELSE IF Head(tokens) \in {"--model", "--provider"} /\ Len(tokens) >= 2
       THEN parseTaskRequestTokens(Tail(Tail(tokens)), task)
  ELSE parseTaskRequestTokens(Tail(tokens), task)

isGloopCommand(token) == token \in {"gloop", "./gloop", "/usr/local/bin/gloop"}

\* parseGloopTaskBashCommand: the task, "" for null
parseGloopTaskBashCommand(command) ==
  IF command = <<>> THEN ""
  ELSE IF ~isGloopCommand(Head(command)) THEN ""
  ELSE parseTaskRequestTokens(Tail(command), "")

\* variant: no call is recognised as a spawn request
asSpawnTask_Never(call) == ""

\* asSpawnTask: the task, "" for null
asSpawnTask(call) ==
  IF call.name # "Bash" THEN "" ELSE parseGloopTaskBashCommand(ArgOr(call, <<>>))

(***************************************************************************)
(* Danger gate (debug.ts 42-64): \brm\b, \brmdir\b on the command text.    *)
(***************************************************************************)
DANGEROUS_WORDS == {"rm", "rmdir"}

MatchesDangerous(command) == \E i \in 1..Len(command) : command[i] \in DANGEROUS_WORDS

NoDanger == [some |-> FALSE, desc |-> <<>>]
Danger(desc) == [some |-> TRUE, desc |-> desc]

requiresConfirmation(call) ==
  IF call.name # "Bash" THEN NoDanger
  ELSE IF MatchesDangerous(ArgOr(call, <<>>)) THEN Danger(ArgOr(call, <<>>))
  ELSE NoDanger

(***************************************************************************)
(* Results and their text (core.ts 149-157, 237-246).                      *)
(***************************************************************************)
ToolResult(name, output, success) == [name |-> name, output |-> output, success |-> success]

SpawnResultOf(success, summary) == [success |-> success, summary |-> summary]

spawnToToolResult(r) ==
  ToolResult("Bash",
             IF r.success THEN <<"Subagent task completed.", r.summary>>
                          ELSE <<"Subagent task failed", r.summary>>,
             r.success)

Blob(r) == [t |-> "result", name |-> r.name,
            status |-> IF r.success THEN "success" ELSE "error", output |-> r.output]

RECURSIVE formatResults(_)
formatResults(results) ==
  IF results = <<>> THEN <<>> ELSE <<Blob(Head(results))>> \o formatResults(Tail(results))

(***************************************************************************)
(* parseToForm (core.ts 159-235).                                          *)
(***************************************************************************)
RECURSIVE chainSpawns(_, _)
chainSpawns(tasks, base) ==
  IF tasks = <<>> THEN base
  ELSE Spawn(Head(tasks), chainSpawns(Tail(tasks), base))

\* the continuation of a Spawn: r => Emit(formatResults([spawnToToolResult(r)]), acc)
ApplySpawnThen(form, r) == Emit(formatResults(<<spawnToToolResult(r)>>), form.acc)

ThenReboot(reason) == [k |-> "reboot", arg |-> reason, tasks |-> <<>>]
\* variant: the results of the calls before CompleteTask go to a Think
ThenDone_Think(summary) == [k |-> "think", arg |-> <<>>, tasks |-> <<>>]

ThenDone(summary) == [k |-> "done", arg |-> summary, tasks |-> <<>>]
ThenThink == [k |-> "think", arg |-> <<>>, tasks |-> <<>>]
ThenSpawns(tasks) == [k |-> "spawns", arg |-> <<>>, tasks |-> tasks]

\* variant: the continuation of a plain batch drops the results and stops
ApplyThen_NoThink(then, results) ==
  CASE then.k = "reboot" -> Reboot(then.arg)
    [] then.k = "done"   -> Done(then.arg)
    [] then.k = "think"  -> Nil
    [] then.k = "spawns" -> chainSpawns(then.tasks, Think(formatResults(results)))

\* the four continuations parseToForm gives an Invoke
ApplyThen(then, results) ==
  CASE then.k = "reboot" -> Reboot(then.arg)
    [] then.k = "done"   -> Done(then.arg)
    [] then.k = "think"  -> Think(formatResults(results))
    [] then.k = "spawns" -> chainSpawns(then.tasks, Think(formatResults(results)))

IsTerminalName(c) == c.name \in {"CompleteTask", "Reboot"}
IsRegular(c) == ~IsTerminalName(c)
IsComplete(c) == c.name = "CompleteTask"
IsReboot(c) == c.name = "Reboot"
IsSpawnCall(c) == asSpawnTask(c) # ""
IsPlainCall(c) == asSpawnTask(c) = ""

RECURSIVE MapTask(_)
MapTask(s) == IF s = <<>> THEN <<>> ELSE <<asSpawnTask(Head(s))>> \o MapTask(Tail(s))

\* variant: the forgets come before the remembers
memoryForms_ForgetsFirst(parsed) ==
  [i \in 1..Len(parsed.forgets) |-> Forget(parsed.forgets[i], Nil)]
  \o [i \in 1..Len(parsed.remembers) |-> Remember(parsed.remembers[i], Nil)]

memoryForms(parsed) ==
  [i \in 1..Len(parsed.remembers) |-> Remember(parsed.remembers[i], Nil)]
  \o [i \in 1..Len(parsed.forgets) |-> Forget(parsed.forgets[i], Nil)]

\* variant: the form comes before the memory forms
withMemory_FormFirst(parsed, form) ==
  IF Len(memoryForms(parsed)) > 0 THEN SeqForm(<<form>> \o memoryForms(parsed)) ELSE form

withMemory(parsed, form) ==
  IF Len(memoryForms(parsed)) > 0 THEN SeqForm(memoryForms(parsed) \o <<form>>) ELSE form

parseToForm(text) ==
  LET parsed == parseResponse(text)
      completeCalls == SelectSeq(parsed.toolCalls, IsComplete)
      rebootCalls == SelectSeq(parsed.toolCalls, IsReboot)
      regularCalls == SelectSeq(parsed.toolCalls, IsRegular)
      plainCalls == SelectSeq(regularCalls, IsPlainCall)
      spawnTasks == MapTask(SelectSeq(regularCalls, IsSpawnCall))
  IN IF Len(parsed.toolCalls) = 0 THEN withMemory(parsed, Nil)
     ELSE IF Len(rebootCalls) > 0
       THEN LET reason == ArgOr(Head(rebootCalls), <<"Reboot requested">>)
            IN withMemory(parsed, IF Len(regularCalls) > 0
                                  THEN Invoke(regularCalls, ThenReboot(reason))
                                  ELSE Reboot(reason))
     ELSE IF Len(completeCalls) > 0
       THEN LET summary == ArgOr(Head(completeCalls), <<"Task complete">>)
            IN withMemory(parsed, IF Len(regularCalls) > 0
                                  THEN Invoke(regularCalls, ThenDone(summary))
                                  ELSE Done(summary))
     ELSE IF Len(regularCalls) = 0 THEN withMemory(parsed, Nil)
     ELSE IF Len(spawnTasks) = 0
       THEN withMemory(parsed, Invoke(regularCalls, ThenThink))
     ELSE IF Len(plainCalls) > 0
       THEN withMemory(parsed, Invoke(plainCalls, ThenSpawns(spawnTasks)))
     ELSE withMemory(parsed, chainSpawns(spawnTasks, Think(<<>>)))

(***************************************************************************)
(* hasCompleteToolBlock (core.ts 252-255).                                 *)
(***************************************************************************)
\* variant: the stream is always read to its end
hasCompleteToolBlock_Never(text) == FALSE

hasCompleteToolBlock(text) == HasTok(text, "open") /\ HasTok(text, "close")

(***************************************************************************)
(* StreamFilter (ui.ts 50-170) on tokens: what reaches the emit sink.      *)
(* depth = -1 is state "normal", depth >= 0 is "suppressing" inside        *)
(* <tools> with that nestingDepth.  A <remember>/<forget> element is       *)
(* entered and left within its own token.                                  *)
(***************************************************************************)
RECURSIVE FilterVisible(_, _)
FilterVisible(text, depth) ==
  IF text = <<>> THEN <<>>
  ELSE LET tk == Head(text)
           rest == Tail(text)
       IN IF depth = -1
          THEN IF tk.t = "open" THEN FilterVisible(rest, 0)
               ELSE IF tk.t \in {"rem", "forg"} THEN FilterVisible(rest, -1)
               ELSE <<tk>> \o FilterVisible(rest, -1)
          ELSE IF tk.t = "open" THEN FilterVisible(rest, depth + 1)
               ELSE IF tk.t = "close"
                    THEN FilterVisible(rest, IF depth > 0 THEN depth - 1 ELSE -1)
               ELSE FilterVisible(rest, depth)

(***************************************************************************)
(* The tool registry of a session (builtins.ts registerBuiltins, plus one  *)
(* custom tool "MyTool" with an askPermission hook, loaded by Reload, plus  *)
(* one custom tool "HookTool" whose file exports name, execute and         *)
(* askPermission but no `arguments`: Reload accepts it).                   *)
(***************************************************************************)
Registered ==
  {"ReadFile", "Bash", "CompleteTask", "AskUser", "ManageContext", "Reload", "MyTool", "HookTool"}

\* tool.arguments, by name
ArgNames(name) ==
  CASE name = "ReadFile" -> <<"path">>
    [] name = "Bash" -> <<"command", "timeoutMs">>
    [] name = "MyTool" -> <<"input">>
    [] name = "CompleteTask" -> <<"summary">>
    [] name = "AskUser" -> <<"question">>
    [] name = "ManageContext" -> <<"instructions">>
    [] OTHER -> <<>>

\* the args mapping evalInvoke zips from tool.arguments and call.rawArgs
BuildArgs(call) ==
  LET names == ArgNames(call.name)
      n == IF Len(names) < Len(call.rawArgs) THEN Len(names) ELSE Len(call.rawArgs)
  IN [a \in {names[i] : i \in 1..n} |->
        call.rawArgs[CHOOSE i \in 1..n : names[i] = a]]

HasAskPermission(name) == name \in {"Bash", "MyTool", "HookTool"}

\* tools whose definition has no `arguments` list: tool.arguments.forEach raises
LacksArguments(name) == name \in {"HookTool"}

\* tools whose execute can raise here: ReadFile (file not found); Bash, Reload
\* and MyTool format their outcome into the output
MayThrow(name) == name \in {"ReadFile"}

\* tool.askPermission(args)
AskPermission(name, args) ==
  CASE name = "Bash" ->
         LET cmd == IF "command" \in DOMAIN args THEN args["command"] ELSE <<>>
         IN IF MatchesDangerous(cmd) THEN Danger(cmd) ELSE NoDanger
    [] name = "MyTool" ->
         IF /\ "input" \in DOMAIN args
            /\ \E i \in 1..Len(args["input"]) : args["input"][i] = "dangerous"
         THEN Danger(<<"MyTool will process dangerous input:">> \o args["input"]) ELSE NoDanger
    [] OTHER -> NoDanger

\* variant: only the Bash pattern is consulted, never the tool's askPermission
DangerOf_PatternOnly(call) == requiresConfirmation(call)

\* the hook is consulted and consulting it raises: the argument mapping of
\* core.ts 468-471 and the hook call of 472 stand outside the try block
PermissionRaises(call) ==
  /\ ~requiresConfirmation(call).some
  /\ HasAskPermission(call.name)
  /\ LacksArguments(call.name)

\* the danger description evalInvoke computes for a registry call (core.ts 466-473)
DangerOf(call) ==
  LET d == requiresConfirmation(call)
  IN IF ~d.some /\ HasAskPermission(call.name)
     THEN AskPermission(call.name, BuildArgs(call))
     ELSE d

(***************************************************************************)
(* What the model may put in a reply, and what the user may type.          *)
(***************************************************************************)
ReadFileA == Call("ReadFile", <<<<"a.txt">>>>)
BashLs == Call("Bash", <<<<"ls">>>>)
BashRm == Call("Bash", <<<<"rm", "x">>>>)
BashTask1 == Call("Bash", <<<<"gloop", "--task", "t1">>>>)
BashTask2 == Call("Bash", <<<<"gloop", "--task", "t2">>>>)
Nope == Call("Nope", <<<<"x">>>>)
AskUserQ == Call("AskUser", <<<<"q">>>>)
ManageContextCall == Call("ManageContext", <<>>)
MyToolDangerous == Call("MyTool", <<<<"dangerous">>>>)
HookToolCall == Call("HookTool", <<<<"x">>>>)
CompleteTaskS1 == Call("CompleteTask", <<<<"s1">>>>)
RebootR1 == Call("Reboot", <<<<"r1">>>>)

\* one run's model writes elements of one vocabulary
GateVocab == {ToolTok(c) : c \in {ReadFileA, BashRm, Nope, AskUserQ, MyToolDangerous,
                                  CompleteTaskS1}}
InlineVocab == {ToolTok(c) : c \in {ReadFileA, BashLs, ManageContextCall, RebootR1}}
SpawnVocab == {ToolTok(c) : c \in {ReadFileA, BashTask1, BashTask2, CompleteTaskS1, RebootR1}}
MemoryVocab == {RemTok("m1"), RemTok("m2"), ForgTok("m1")}
                 \cup {ToolTok(c) : c \in {ReadFileA, BashTask1, CompleteTaskS1}}

Vocabularies == {GateVocab, InlineVocab, SpawnVocab, MemoryVocab}

\* a model that fills one batch with context prunes, until the counter of
\* evalInvoke reaches the prune interval
LongVocab == {ToolTok(ManageContextCall)}

\* a model that fills batches of AskUser calls, of these sizes
CountVocab == {ToolTok(AskUserQ)}
BatchSizes == {20, 30}

\* a model that writes markup in any order, closed or not
FreeVocab == {Prose, Open, Close, ToolTok(ReadFileA)}

\* small vocabularies that between them reach every step of the interpreter
SmallVocabularies ==
  { {ToolTok(ReadFileA), ToolTok(BashTask1)},
    {ToolTok(ManageContextCall), ToolTok(CompleteTaskS1)},
    {ToolTok(AskUserQ), ToolTok(RebootR1)},
    {ToolTok(Nope), ToolTok(BashRm)},
    {RemTok("m1"), ForgTok("m1")} }

Inputs == { <<"hi">>, <<"/tools">>, <<"/install", "src">>, <<"/install">>, <<"/bogus">> }

(***************************************************************************)
(* Effects trace.                                                          *)
(***************************************************************************)
Ev(e, name, ok, text) == [e |-> e, name |-> name, ok |-> ok, text |-> text]

RECURSIVE EvChunks(_)
EvChunks(toks) ==
  IF toks = <<>> THEN <<>>
  ELSE <<Ev("streamChunk", "", TRUE, <<Head(toks)>>)>> \o EvChunks(Tail(toks))

Msg(role, content) == [role |-> role, content |-> content]

(***************************************************************************)
(* parseInput (core.ts 535-547).  The input is its words, a run of blanks  *)
(* being the word " ".                                                     *)
(***************************************************************************)
StartsWithSlash(word) == word \in {"/tools", "/install", "/bogus"}

\* String.prototype.trim
Trim(text) ==
  LET solid == {i \in 1..Len(text) : text[i] # " "}
  IN IF solid = {} THEN <<>>
     ELSE SubSeq(text, CHOOSE i \in solid : \A j \in solid : i <= j,
                       CHOOSE i \in solid : \A j \in solid : j <= i)

\* variant: the input is taken as typed
parseInput_Untrimmed(in) ==
  IF in = <<>> \/ ~StartsWithSlash(Head(in)) THEN Think(in)
  ELSE LET cmd == Head(in)
           arg == Trim(Tail(in))
       IN CASE cmd = "/install" ->
                 IF arg # <<>> THEN Install(arg)
                 ELSE Emit(<<"Usage: /install <url|path>">>, Nil)
            [] cmd = "/tools" -> ListTools
            [] OTHER -> Emit(<<"Unknown command: ", cmd>>, Nil)

parseInput(in) ==
  LET t == Trim(in)
  IN IF t = <<>> \/ ~StartsWithSlash(Head(t)) THEN Think(t)
     ELSE LET cmd == Head(t)
              arg == Trim(Tail(t))
          IN CASE cmd = "/install" ->
                    IF arg # <<>> THEN Install(arg)
                    ELSE Emit(<<"Usage: /install <url|path>">>, Nil)
               [] cmd = "/tools" -> ListTools
               [] OTHER -> Emit(<<"Unknown command: ", cmd>>, Nil)

(***************************************************************************)
(* Interpreter state.                                                      *)
(***************************************************************************)
Ctl(op, fullText, calls, then, i, results, stage) ==
  [op |-> op, fullText |-> fullText, calls |-> calls, then |-> then,
   i |-> i, results |-> results, stage |-> stage]

CtlEval == Ctl("eval", <<>>, <<>>, ThenThink, 0, <<>>, "")
CtlThink == Ctl("think", <<>>, <<>>, ThenThink, 0, <<>>, "")
CtlInvoke(calls, then) == Ctl("invoke", <<>>, calls, then, 1, <<>>, "call")

Init ==
  /\ status = "idle"
  /\ input \in Inputs
  /\ vocab \in Vocabularies
  /\ stack = <<>>
  /\ ctl = CtlEval
  /\ history = <<>>
  /\ trace = <<>>
  /\ toolCalls = 0
  /\ aborted = FALSE
  /\ turns = 0
  /\ used = 0

\* variant: eval_ without the check of the token at its entry
Entering_Unchecked(tag) ==
  /\ status = "running"
  /\ ctl.op = "eval"
  /\ stack # <<>>
  /\ Head(stack).tag = tag

\* eval_ is entered on the form at the head of the stack (core.ts 274-275)
Entering(tag) ==
  /\ status = "running"
  /\ ctl.op = "eval"
  /\ stack # <<>>
  /\ ~aborted
  /\ Head(stack).tag = tag

\* the forms left decide whether run() has returned
Proceed(rest) ==
  /\ stack' = rest
  /\ status' = IF rest = <<>> THEN "returned" ELSE "running"

\* run (core.ts 555-561)
Run ==
  /\ status = "idle"
  /\ status' = "running"
  /\ stack' = <<parseInput(input)>>
  /\ UNCHANGED <<input, vocab, ctl, history, trace, toolCalls, aborted, turns, used>>

(***************************************************************************)
(* eval_ (core.ts 269-346), one action per tag that run() can reach.       *)
(***************************************************************************)
EvalNil ==
  /\ Entering("nil")
  /\ Proceed(Tail(stack))
  /\ UNCHANGED <<input, vocab, ctl, history, trace, toolCalls, aborted, turns, used>>

EvalDone ==
  /\ Entering("done")
  /\ trace' = Append(trace, Ev("complete", "", TRUE, Head(stack).summary))
  /\ Proceed(Tail(stack))
  /\ UNCHANGED <<input, vocab, ctl, history, toolCalls, aborted, turns, used>>

EvalEmit ==
  /\ Entering("emit")
  /\ trace' = trace \o <<Ev("streamChunk", "", TRUE, Head(stack).text),
                         Ev("streamDone", "", TRUE, <<>>)>>
  /\ Proceed(<<Head(stack).then>> \o Tail(stack))
  /\ UNCHANGED <<input, vocab, ctl, history, toolCalls, aborted, turns, used>>

EvalRemember ==
  /\ Entering("remember")
  /\ trace' = Append(trace, Ev("remember", Head(stack).content, TRUE, <<>>))
  /\ Proceed(<<Head(stack).then>> \o Tail(stack))
  /\ UNCHANGED <<input, vocab, ctl, history, toolCalls, aborted, turns, used>>

EvalForget ==
  /\ Entering("forget")
  /\ trace' = Append(trace, Ev("forget", Head(stack).content, TRUE, <<>>))
  /\ Proceed(<<Head(stack).then>> \o Tail(stack))
  /\ UNCHANGED <<input, vocab, ctl, history, toolCalls, aborted, turns, used>>

\* fx.reboot saves the session and exits the process; a failed save rejects
EvalReboot ==
  /\ Entering("reboot")
  /\ \E saved \in BOOLEAN :
       /\ trace' = Append(trace, Ev("reboot", "", saved, Head(stack).reason))
       /\ status' = IF saved THEN "exited" ELSE "threw"
  /\ stack' = <<>>
  /\ UNCHANGED <<input, vocab, ctl, history, toolCalls, aborted, turns, used>>

EvalSeq ==
  /\ Entering("seq")
  /\ Proceed(Head(stack).forms \o Tail(stack))
  /\ UNCHANGED <<input, vocab, ctl, history, trace, toolCalls, aborted, turns, used>>

EvalInstall ==
  /\ Entering("install")
  /\ trace' = trace \o <<Ev("installTool", "", TRUE, Head(stack).source),
                         Ev("streamChunk", "", TRUE, <<"installed">>),
                         Ev("streamDone", "", TRUE, <<>>)>>
  /\ Proceed(Tail(stack))
  /\ UNCHANGED <<input, vocab, ctl, history, toolCalls, aborted, turns, used>>

EvalListTools ==
  /\ Entering("list-tools")
  /\ trace' = trace \o <<Ev("listTools", "", TRUE, <<>>),
                         Ev("streamChunk", "", TRUE, <<"tools available">>),
                         Ev("streamDone", "", TRUE, <<>>)>>
  /\ Proceed(Tail(stack))
  /\ UNCHANGED <<input, vocab, ctl, history, toolCalls, aborted, turns, used>>

EvalSpawn ==
  /\ Entering("spawn")
  /\ \E ok \in BOOLEAN :
       /\ trace' = Append(trace, Ev("spawn", Head(stack).task, ok, <<>>))
       /\ Proceed(<<ApplySpawnThen(Head(stack), SpawnResultOf(ok, "summary"))>>
                  \o Tail(stack))
  /\ UNCHANGED <<input, vocab, ctl, history, toolCalls, aborted, turns, used>>

\* evalThink up to its first iter.next(): AIConversation.stream pushes the user
\* message and sends the request (core.ts 354-374, builder.ts stream)
EvalThink ==
  /\ Entering("think")
  /\ history' = Append(history, Msg("user", Head(stack).input))
  /\ trace' = Append(trace, Ev("request", "", TRUE, Head(stack).input))
  /\ turns' = turns + 1
  /\ ctl' = CtlThink
  /\ stack' = Tail(stack)
  /\ UNCHANGED <<status, input, vocab, toolCalls, aborted, used>>

EvalInvoke ==
  /\ Entering("invoke")
  /\ ctl' = CtlInvoke(Head(stack).calls, Head(stack).then)
  /\ stack' = Tail(stack)
  /\ UNCHANGED <<status, input, vocab, history, trace, toolCalls, aborted, turns, used>>

(***************************************************************************)
(* The provider's stream.  A chunk is one token.  A reply is empty, or     *)
(* prose, or one <tools> block of tool and memory elements.                *)
(***************************************************************************)
IsElem(tk) == tk.t \in {"tool", "rem", "forg"}

\* the run may hold one more element; the long model fills one batch only,
\* the first that evalInvoke counts
ElemsLeft ==
  IF vocab = LongVocab
  THEN toolCalls = 0 /\ used < CONTEXT_PRUNE_INTERVAL
  ELSE used < MaxElems

ProviderTokens(fullText) ==
  IF vocab = FreeVocab
  THEN (IF ElemsLeft THEN vocab ELSE {})
  ELSE IF fullText = <<>>
  THEN {Prose} \cup (IF turns <= MaxToolTurns THEN {Open} ELSE {})
  ELSE IF HasTok(fullText, "open") /\ vocab = CountVocab
  THEN (IF Len(fullText) - 1 \in BatchSizes THEN {Close} ELSE {})
       \cup (IF \E n \in BatchSizes : Len(fullText) - 1 < n THEN vocab ELSE {})
  ELSE IF HasTok(fullText, "open")
  THEN {Close} \cup (IF ElemsLeft THEN vocab ELSE {})
  ELSE {}

\* the tail of evalThink once the loop is left (core.ts 402-419)
ThinkFinish(fullText) ==
  /\ ctl' = CtlEval
  /\ Proceed(<<parseToForm(fullText)>> \o stack)

\* variant: the early break leaves the push to the generator, which never runs it
BrokeEarlyMessage_Missing(fullText) == <<>>

\* what evalThink appends to the history after an early break (core.ts 402-412)
BrokeEarlyMessage(fullText) ==
  IF fullText # <<>> THEN <<Msg("assistant", fullText)>> ELSE <<>>

\* one chunk arrives (core.ts 374-387); a complete tool block ends the loop
StreamChunk ==
  /\ status = "running"
  /\ ctl.op = "think"
  /\ ~aborted
  /\ \E tk \in ProviderTokens(ctl.fullText) :
       LET fullText == Append(ctl.fullText, tk)
           shown == SubSeq(FilterVisible(fullText, -1),
                           Len(FilterVisible(ctl.fullText, -1)) + 1,
                           Len(FilterVisible(fullText, -1)))
       IN /\ used' = IF IsElem(tk) \/ vocab = FreeVocab THEN used + 1 ELSE used
          /\ IF hasCompleteToolBlock(fullText)
             THEN /\ history' = history \o BrokeEarlyMessage(fullText)
                  /\ trace' = trace \o EvChunks(shown) \o <<Ev("streamDone", "", TRUE, <<>>)>>
                  /\ ThinkFinish(fullText)
             ELSE /\ ctl' = [ctl EXCEPT !.fullText = fullText]
                  /\ trace' = trace \o EvChunks(shown)
                  /\ UNCHANGED <<history, stack, status>>
  /\ UNCHANGED <<input, vocab, toolCalls, aborted, turns>>

\* the stream ends: the generator pushes the assistant message (builder.ts
\* stream), evalThink flushes and parses (core.ts 378, 413-419)
StreamEnd ==
  /\ status = "running"
  /\ ctl.op = "think"
  /\ ~aborted
  /\ vocab = FreeVocab \/ ~HasTok(ctl.fullText, "open")
  /\ history' = IF ctl.fullText # <<>>
                THEN Append(history, Msg("assistant", ctl.fullText))
                ELSE history
  /\ trace' = Append(trace, Ev("streamDone", "", TRUE, <<>>))
  /\ ThinkFinish(ctl.fullText)
  /\ UNCHANGED <<input, vocab, toolCalls, aborted, turns, used>>

(***************************************************************************)
(* evalInvoke (core.ts 423-523).                                           *)
(***************************************************************************)
\* the loop is at the head of the iteration for calls[i]
AtCall ==
  /\ status = "running"
  /\ ctl.op = "invoke"
  /\ ctl.stage = "call"
  /\ ctl.i <= Len(ctl.calls)
  /\ ~aborted

CurCall == ctl.calls[ctl.i]

\* variant: the loop goes on without recording the result
NextCall_DropResult(r) ==
  ctl' = [ctl EXCEPT !.i = @ + 1, !.stage = "call"]

\* results.push(r) and `continue`
NextCall(r) ==
  ctl' = [ctl EXCEPT !.results = Append(@, r), !.i = @ + 1, !.stage = "call"]

\* AskUser, handled inline (core.ts 438-445)
InvokeAskUser ==
  /\ AtCall
  /\ CurCall.name = "AskUser"
  /\ trace' = trace \o <<Ev("toolStart", "AskUser", TRUE, <<>>),
                         Ev("ask", "", TRUE, ArgOr(CurCall, <<"What would you like to do?">>)),
                         Ev("toolDone", "AskUser", TRUE, <<"answered">>)>>
  /\ NextCall(ToolResult("AskUser", <<"User answered: ", "answer">>, TRUE))
  /\ UNCHANGED <<status, input, vocab, stack, history, toolCalls, aborted, turns, used>>

\* ManageContext, handled inline (core.ts 448-455)
InvokeManageContext ==
  /\ AtCall
  /\ CurCall.name = "ManageContext"
  /\ trace' = trace \o <<Ev("toolStart", "ManageContext", TRUE, <<>>),
                         Ev("manageContext", "", TRUE,
                            ArgOr(CurCall, <<"Prune stale messages">>)),
                         Ev("toolDone", "ManageContext", TRUE, <<"pruned">>)>>
  /\ NextCall(ToolResult("ManageContext", <<"pruned">>, TRUE))
  /\ UNCHANGED <<status, input, vocab, stack, history, toolCalls, aborted, turns, used>>

IsInline(call) == call.name \in {"AskUser", "ManageContext"}

\* variant: the unknown call is recorded as a success
UnknownResult_Success(call) == ToolResult(call.name, <<"Unknown tool: ", call.name>>, TRUE)

\* the result synthesized for a name the registry does not hold (core.ts 460)
UnknownResult(call) == ToolResult(call.name, <<"Unknown tool: ", call.name>>, FALSE)

\* registry.get finds nothing (core.ts 458-463)
InvokeUnknown ==
  /\ AtCall
  /\ ~IsInline(CurCall)
  /\ CurCall.name \notin Registered
  /\ trace' = Append(trace, Ev("toolDone", CurCall.name, UnknownResult(CurCall).success,
                               UnknownResult(CurCall).output))
  /\ NextCall(UnknownResult(CurCall))
  /\ UNCHANGED <<status, input, vocab, stack, history, toolCalls, aborted, turns, used>>

\* a gate yields a description: fx.confirm (core.ts 466-481)
InvokeConfirm ==
  /\ AtCall
  /\ ~IsInline(CurCall)
  /\ CurCall.name \in Registered
  /\ ~PermissionRaises(CurCall)
  /\ DangerOf(CurCall).some
  /\ \E ok \in BOOLEAN :
       IF ok
       THEN /\ trace' = Append(trace, Ev("confirm", CurCall.name, TRUE, DangerOf(CurCall).desc))
            /\ ctl' = [ctl EXCEPT !.stage = "confirmed"]
       ELSE /\ trace' = trace \o <<Ev("confirm", CurCall.name, FALSE, DangerOf(CurCall).desc),
                                   Ev("toolDone", CurCall.name, FALSE, <<"denied by user">>)>>
            /\ NextCall(ToolResult(CurCall.name, <<"User denied execution">>, FALSE))
  /\ UNCHANGED <<status, input, vocab, stack, history, toolCalls, aborted, turns, used>>

\* the result the try block pushes (core.ts 494)
SuccessResult(call) == ToolResult(call.name, <<"output of", call.name>>, TRUE)

\* variant: the catch block records the failure as a success
FailureResult_AsSuccess(call) == ToolResult(call.name, <<"error in", call.name>>, TRUE)

\* the result the catch block pushes (core.ts 496-500)
FailureResult(call) == ToolResult(call.name, <<"error in", call.name>>, FALSE)

\* toolStart, tool.execute, toolDone (core.ts 483-502)
InvokeExecute ==
  /\ status = "running"
  /\ ctl.op = "invoke"
  /\ \/ ctl.stage = "confirmed"
     \/ /\ AtCall
        /\ ~IsInline(CurCall)
        /\ CurCall.name \in Registered
        /\ ~PermissionRaises(CurCall)
        /\ ~DangerOf(CurCall).some
  /\ \E returned \in (IF MayThrow(CurCall.name) THEN BOOLEAN ELSE {TRUE}) :
       LET r == IF returned THEN SuccessResult(CurCall) ELSE FailureResult(CurCall)
       IN /\ trace' = trace \o
               <<Ev("toolStart", CurCall.name, TRUE, <<>>),
                 Ev("execute", CurCall.name, returned, ArgOr(CurCall, <<>>)),
                 Ev("toolDone", CurCall.name, r.success,
                    IF r.success THEN <<"ok">> ELSE r.output)>>
          /\ NextCall(r)
  /\ UNCHANGED <<status, input, vocab, stack, history, toolCalls, aborted, turns, used>>

IsReload(c) == c.name = "Reload"

\* variant: the prune waits until the counter is past the interval
PruneDue_Past(n) == n > CONTEXT_PRUNE_INTERVAL

\* world.toolCalls >= CONTEXT_PRUNE_INTERVAL (core.ts 513)
PruneDue(n) == n >= CONTEXT_PRUNE_INTERVAL

\* after the loop: refresh, the prune counter, the continuation (core.ts 505-522)
InvokeFinish ==
  /\ status = "running"
  /\ ctl.op = "invoke"
  /\ ctl.stage = "call"
  /\ ctl.i > Len(ctl.calls)
  /\ LET hasReload == \E j \in 1..Len(ctl.calls) : IsReload(ctl.calls[j])
         n == toolCalls + Len(ctl.calls)
         prune == PruneDue(n)
     IN /\ trace' = trace
             \o (IF hasReload THEN <<Ev("refreshSystem", "", TRUE, <<>>)>> ELSE <<>>)
             \o (IF prune
                 THEN <<Ev("toolStart", "ManageContext", TRUE, <<>>),
                        Ev("manageContext", "", TRUE, <<"Prune old tool results">>),
                        Ev("toolDone", "ManageContext", TRUE, <<"pruned">>)>>
                 ELSE <<>>)
        /\ toolCalls' = IF prune THEN 0 ELSE n
  /\ ctl' = CtlEval
  /\ Proceed(<<ApplyThen(ctl.then, ctl.results)>> \o stack)
  /\ UNCHANGED <<input, vocab, history, aborted, turns, used>>

Next ==
  \/ Run
  \/ EvalNil
  \/ EvalDone
  \/ EvalEmit
  \/ EvalRemember
  \/ EvalForget
  \/ EvalReboot
  \/ EvalSeq
  \/ EvalInstall
  \/ EvalListTools
  \/ EvalSpawn
  \/ EvalThink
  \/ EvalInvoke
  \/ StreamChunk
  \/ StreamEnd
  \/ InvokeAskUser
  \/ InvokeManageContext
  \/ InvokeUnknown
  \/ InvokeConfirm
  \/ InvokeExecute
  \/ InvokeFinish

Spec == Init /\ [][Next]_vars

(***************************************************************************)
(* Reading the effects trace.                                              *)
(***************************************************************************)
IsPrefix(a, b) == Len(a) <= Len(b) /\ SubSeq(b, 1, Len(a)) = a

\* the positions of the events of kind e
At(tr, e) == {i \in 1..Len(tr) : tr[i].e = e}
Min(S) == CHOOSE i \in S : \A j \in S : i <= j
Max(S) == CHOOSE i \in S : \A j \in S : j <= i

\* the positions of the events of kind e, ascending
RECURSIVE PositionsFrom(_, _, _)
PositionsFrom(tr, e, i) ==
  IF i > Len(tr) THEN <<>>
  ELSE (IF tr[i].e = e THEN <<i>> ELSE <<>>) \o PositionsFrom(tr, e, i + 1)
Positions(tr, e) == PositionsFrom(tr, e, 1)

CountEv(tr, e) == Cardinality(At(tr, e))

\* the events after the last LLM request: the current turn
LastRequestAt == IF At(trace, "request") = {} THEN 0 ELSE Max(At(trace, "request"))
Turn == SubSeq(trace, LastRequestAt + 1, Len(trace))

\* the current turn after the streamDone that closed its reply
TurnBody ==
  LET from == LastRequestAt
      sd == {i \in (from + 1)..Len(trace) : trace[i].e = "streamDone"}
  IN IF sd = {} THEN <<>> ELSE SubSeq(trace, Min(sd) + 1, Len(trace))

IsToolEvent(ev) == ev.e \in {"toolStart", "toolDone"}
IsToolDone(ev) == ev.e = "toolDone"
IsToolStart(ev) == ev.e = "toolStart"
IsMemoryEvent(ev) == ev.e \in {"remember", "forget"}
IsSpawnEvent(ev) == ev.e = "spawn"
IsExecute(ev) == ev.e = "execute"
IsGateEvent(ev) == ev.e \in {"confirm", "execute"}

\* the reply of the current turn: the assistant message that answers the last request
IsAssistant(m) == m.role = "assistant"
Replies ==
  [j \in 1..Len(SelectSeq(history, IsAssistant)) |-> SelectSeq(history, IsAssistant)[j].content]
ReplyReceived == turns >= 1 /\ ctl.op # "think"
LastReply ==
  IF history # <<>> /\ Last(history).role = "assistant" THEN Last(history).content ELSE <<>>

\* the turn is over: run() has ended, or the next request is about to be made
TurnComplete ==
  /\ ReplyReceived
  /\ \/ status = "returned"
     \/ status = "running" /\ ctl.op = "eval" /\ stack # <<>> /\ Head(stack).tag = "think"

(***************************************************************************)
(* What a reply asks for, read off its tokens.                             *)
(***************************************************************************)
CallsIn(reply) == MapCall(SelectSeq(reply, IsTool))
TerminalNames == {"CompleteTask", "Reboot"}
GloopTaskCalls == {BashTask1, BashTask2}
HasTerminalCall(reply) ==
  \E i \in 1..Len(CallsIn(reply)) : CallsIn(reply)[i].name \in TerminalNames
OnlyPlainRegularCalls(reply) ==
  \A i \in 1..Len(CallsIn(reply)) :
    /\ CallsIn(reply)[i].name \notin TerminalNames
    /\ CallsIn(reply)[i] \notin GloopTaskCalls
AsksForTools(reply) == CallsIn(reply) # <<>>

\* the events strictly between positions a and b of the trace
Between(a, b) == SubSeq(trace, a + 1, b - 1)

\* the events after the j-th streamDone, up to the next one (or the end)
AfterStreamDone(j) ==
  LET sd == Positions(trace, "streamDone")
  IN Between(sd[j], IF j < Len(sd) THEN sd[j + 1] ELSE Len(trace) + 1)

(***************************************************************************)
(* C1.  A run of k tool turns (regular, non-spawn batches) and a final     *)
(* plain reply has exactly k+1 streamDone events; the tool events of the   *)
(* j-th batch all lie between the j-th and the (j+1)-th streamDone, none   *)
(* lies before the first, and no complete event is emitted.                *)
(***************************************************************************)
PlainToolRun ==
  /\ status = "returned"
  /\ turns >= 1
  /\ \A j \in 1..Len(Replies) : OnlyPlainRegularCalls(Replies[j])

ToolTurns == Len(SelectSeq(Replies, AsksForTools))

C1_StreamDonePerTurn ==
  PlainToolRun =>
    /\ CountEv(trace, "streamDone") = ToolTurns + 1
    /\ CountEv(trace, "complete") = 0
    /\ SelectSeq(Between(0, Head(Positions(trace, "streamDone"))), IsToolEvent) = <<>>
    /\ \A j \in 1..(ToolTurns + 1) :
         LET batch == IF j <= Len(Replies) THEN CallsIn(Replies[j]) ELSE <<>>
             seg == AfterStreamDone(j)
         IN /\ MapName(SelectSeq(seg, IsToolDone)) = MapName(batch)
            /\ \A p \in 1..Len(seg) :
                 IsToolStart(seg[p]) => \E q \in 1..Len(batch) : batch[q].name = seg[p].name

C1_Witness ==
  /\ PlainToolRun
  /\ ToolTurns = 2
  /\ CountEv(trace, "toolDone") = 3

(***************************************************************************)
(* The Invoke step in progress, and its events so far.                     *)
(***************************************************************************)
InInvoke == status = "running" /\ ctl.op = "invoke"
LoopDone == InInvoke /\ ctl.stage = "call" /\ ctl.i > Len(ctl.calls)

KindName(ev) == <<ev.e, ev.name>>
KindNames(evs) == [i \in 1..Len(evs) |-> KindName(evs[i])]

RECURSIVE StartDonePairs(_)
StartDonePairs(calls) ==
  IF calls = <<>> THEN <<>>
  ELSE <<<<"toolStart", Head(calls).name>>, <<"toolDone", Head(calls).name>>>>
       \o StartDonePairs(Tail(calls))

(***************************************************************************)
(* C2.  When the loop of an Invoke step is through its batch B, the step   *)
(* has emitted exactly |B| toolStart and |B| toolDone events, paired per   *)
(* call in input order: toolStart(name), toolDone(name), next call.        *)
(***************************************************************************)
C2_PairedToolEvents ==
  LoopDone =>
    KindNames(SelectSeq(TurnBody, IsToolEvent)) = StartDonePairs(ctl.calls)

(***************************************************************************)
(* C3.  The calls are processed one at a time in input order: while the    *)
(* step runs, results holds one ToolResult for each call before calls[i],  *)
(* with that call's name, and the toolDone events are in the same order;   *)
(* at the continuation length(results) = length(calls), and a following    *)
(* Think carries one blob per call.                                        *)
(***************************************************************************)
BlobNames(text) == MapName(text)

C3_OneResultPerCall ==
  /\ InInvoke =>
       /\ ctl.i \in 1..(Len(ctl.calls) + 1)
       /\ Len(ctl.results) = ctl.i - 1
       /\ MapName(ctl.results) = MapName(SubSeq(ctl.calls, 1, ctl.i - 1))
       /\ MapName(SelectSeq(TurnBody, IsToolDone)) = MapName(ctl.results)
  /\ LoopDone =>
       /\ Len(ctl.results) = Len(ctl.calls)
       /\ \A j \in 1..Len(ctl.calls) : ctl.results[j].name = ctl.calls[j].name
  /\ (TurnComplete /\ status = "running" /\ OnlyPlainRegularCalls(LastReply)
        /\ AsksForTools(LastReply)) =>
       BlobNames(Head(stack).input) = MapName(CallsIn(LastReply))

C3_Witness ==
  /\ LoopDone
  /\ Len(ctl.calls) = 3
  /\ ctl.calls[1] = Nope
  /\ ctl.calls[2] = BashRm /\ ctl.results[2].output = <<"User denied execution">>
  /\ ctl.calls[3] = ReadFileA /\ ~ctl.results[3].success

(***************************************************************************)
(* What a reply asks for, read off the reply itself.                       *)
(***************************************************************************)
RECURSIVE FirstNamed(_, _)
FirstNamed(calls, name) ==
  IF calls = <<>> THEN NoCall
  ELSE IF Head(calls).name = name THEN Head(calls)
  ELSE FirstNamed(Tail(calls), name)

NotTerminal(c) == c.name \notin TerminalNames
NonTerminalCalls(reply) == SelectSeq(CallsIn(reply), NotTerminal)
AsksReboot(reply) == \E j \in 1..Len(CallsIn(reply)) : CallsIn(reply)[j].name = "Reboot"
AsksComplete(reply) ==
  /\ ~AsksReboot(reply)
  /\ \E j \in 1..Len(CallsIn(reply)) : CallsIn(reply)[j].name = "CompleteTask"
IsTerminalEvent(ev) == ev.e \in {"complete", "reboot"}
NoThinkPending == \A j \in 1..Len(stack) : stack[j].tag # "think"

(***************************************************************************)
(* C4.  A run that ends through Done(s) calls fx.complete(s) exactly once, *)
(* as its last effect, after every memory form and every regular call of   *)
(* the response; a reply that asks for CompleteTask (and not Reboot) ends  *)
(* the run that way, with the summary of its first CompleteTask call.      *)
(***************************************************************************)
C4_CompleteOnceLast ==
  /\ CountEv(trace, "complete") > 0 =>
       /\ CountEv(trace, "complete") = 1
       /\ Last(trace).e = "complete"
       /\ status = "returned"
       /\ stack = <<>>
       /\ AsksComplete(LastReply)
       /\ Last(trace).text = FirstNamed(CallsIn(LastReply), "CompleteTask").rawArgs[1]
       /\ MapName(SelectSeq(TurnBody, IsToolDone)) = MapName(NonTerminalCalls(LastReply))
       /\ Len(SelectSeq(TurnBody, IsMemoryEvent)) =
            Len(parseResponse(LastReply).remembers) + Len(parseResponse(LastReply).forgets)
  /\ (status = "returned" /\ ReplyReceived /\ AsksComplete(LastReply)) =>
       CountEv(trace, "complete") = 1

C4_Witness ==
  /\ status = "returned"
  /\ Last(trace).e = "complete"
  /\ Len(SelectSeq(TurnBody, IsMemoryEvent)) >= 1
  /\ Len(SelectSeq(TurnBody, IsToolDone)) >= 1

(***************************************************************************)
(* C5.  When the reply holds a CompleteTask or Reboot call, every other    *)
(* call of the reply runs first, exactly once and in order; then the       *)
(* terminal form is evaluated, and the results never start a further       *)
(* Think.                                                                  *)
(***************************************************************************)
C5_TerminalAfterRegular ==
  (ReplyReceived /\ HasTerminalCall(LastReply)) =>
    LET turnBody == TurnBody
        done == MapName(SelectSeq(turnBody, IsToolDone))
        regular == MapName(NonTerminalCalls(LastReply))
        terminal == SelectSeq(turnBody, IsTerminalEvent)
    IN /\ IsPrefix(done, regular)
       /\ NoThinkPending
       /\ InInvoke => ctl.then.k \in {"done", "reboot"}
       /\ terminal # <<>> =>
            /\ done = regular
            /\ Len(terminal) = 1
            /\ IsTerminalEvent(Last(trace))
            /\ Last(trace).e = (IF AsksReboot(LastReply) THEN "reboot" ELSE "complete")
            /\ status \in {"returned", "exited", "threw"}
       /\ status = "returned" => Last(trace).e = "complete"

C5_Witness ==
  /\ ReplyReceived
  /\ AsksReboot(LastReply)
  /\ Last(trace).e = "reboot"
  /\ Len(SelectSeq(TurnBody, IsToolDone)) = 2

(***************************************************************************)
(* C6.  The memory operations of a reply are evaluated before any of its   *)
(* tool calls, spawns or terminal form: all remembers in order, then all   *)
(* forgets in order, as many fx.remember and fx.forget calls as            *)
(* parseResponse reported.                                                 *)
(***************************************************************************)
MemoryKinds(e, ms) == [i \in 1..Len(ms) |-> <<e, ms[i]>>]

ExpectedMemory(reply) ==
  LET parsed == parseResponse(reply)
  IN MemoryKinds("remember", parsed.remembers) \o MemoryKinds("forget", parsed.forgets)

C6_MemoryFirst ==
  ReplyReceived =>
    LET expected == ExpectedMemory(LastReply)
        turnBody == TurnBody
        body == KindNames(turnBody)
        mem == KindNames(SelectSeq(turnBody, IsMemoryEvent))
    IN /\ IsPrefix(mem, expected)
       /\ Len(mem) < Len(body) => mem = expected /\ IsPrefix(expected, body)
       /\ TurnComplete => mem = expected

C6_Witness ==
  /\ ReplyReceived
  /\ Len(parseResponse(LastReply).remembers) = 1
  /\ Len(parseResponse(LastReply).forgets) = 1
  /\ Len(SelectSeq(TurnBody, IsMemoryEvent)) = 2
  /\ Len(SelectSeq(TurnBody, IsToolDone)) >= 1

(***************************************************************************)
(* Spawn requests of a reply, read off the reply itself.                   *)
(***************************************************************************)
IsGloopTaskCall(c) == c \in GloopTaskCalls
IsPlainRegular(c) == NotTerminal(c) /\ ~IsGloopTaskCall(c)
PlainCallsOf(reply) == SelectSeq(CallsIn(reply), IsPlainRegular)
SpawnCallsOf(reply) == SelectSeq(CallsIn(reply), IsGloopTaskCall)

TasksOf(calls) == [i \in 1..Len(calls) |-> calls[i].rawArgs[1][3]]

CommandsOf(calls) == [i \in 1..Len(calls) |-> calls[i].rawArgs[1]]

TextsOf(evs) == [i \in 1..Len(evs) |-> evs[i].text]

IsGloopTaskExecute(ev) ==
  ev.e = "execute" /\ ev.name = "Bash" /\ Call("Bash", <<ev.text>>) \in GloopTaskCalls
IsToolOrSpawn(ev) == ev.e \in {"toolDone", "spawn"}

(***************************************************************************)
(* C7.  For a reply whose regular calls mix plain tools and spawn tasks    *)
(* (or are all spawn tasks): the plain tools run first, then the spawns    *)
(* one at a time left to right, and the input of the Think that follows is *)
(* the plain-tool result blobs followed by one Bash blob per spawn.        *)
(***************************************************************************)
C7_ThinkGetsSpawnResults ==
  (TurnComplete /\ status = "running" /\ ~HasTerminalCall(LastReply)
     /\ SpawnCallsOf(LastReply) # <<>>) =>
    /\ KindNames(SelectSeq(TurnBody, IsToolOrSpawn)) =
         MemoryKinds("toolDone", MapName(PlainCallsOf(LastReply)))
           \o MemoryKinds("spawn", TasksOf(SpawnCallsOf(LastReply)))
    /\ BlobNames(Head(stack).input) =
         MapName(PlainCallsOf(LastReply)) \o MapName(SpawnCallsOf(LastReply))

\* what does hold: the order of execution, and a Think input of the plain blobs only
C7_PlainBlobsOnly ==
  (TurnComplete /\ status = "running" /\ ~HasTerminalCall(LastReply)
     /\ SpawnCallsOf(LastReply) # <<>>) =>
    /\ KindNames(SelectSeq(TurnBody, IsToolOrSpawn)) =
         MemoryKinds("toolDone", MapName(PlainCallsOf(LastReply)))
           \o MemoryKinds("spawn", TasksOf(SpawnCallsOf(LastReply)))
    /\ BlobNames(Head(stack).input) = MapName(PlainCallsOf(LastReply))

(***************************************************************************)
(* C8 as stated.  Every Bash call whose command is a gloop task command is *)
(* spawned and never executed through the registry, whatever else the      *)
(* reply holds; no other call is spawned.                                  *)
(***************************************************************************)
C8_AlwaysSpawned ==
  ReplyReceived =>
    LET turnBody == TurnBody
        spawned == MapName(SelectSeq(turnBody, IsSpawnEvent))
        tasks == TasksOf(SpawnCallsOf(LastReply))
    IN /\ IsPrefix(spawned, tasks)
       /\ TurnComplete => spawned = tasks
       /\ SelectSeq(turnBody, IsGloopTaskExecute) = <<>>

(***************************************************************************)
(* C8.  In a reply without a CompleteTask or Reboot call, every Bash call  *)
(* whose command is a gloop task command is spawned with the extracted     *)
(* task and never executed through the registry, and no other call is      *)
(* spawned.  In a reply with a CompleteTask or Reboot call nothing is      *)
(* spawned: such Bash calls run through the registry's Bash tool in the    *)
(* Invoke step that precedes the terminal form.                            *)
(***************************************************************************)
C8_SpawnUnlessTerminal ==
  ReplyReceived =>
    LET turnBody == TurnBody
        spawned == MapName(SelectSeq(turnBody, IsSpawnEvent))
        executed == TextsOf(SelectSeq(turnBody, IsGloopTaskExecute))
        requests == SpawnCallsOf(LastReply)
    IN IF HasTerminalCall(LastReply)
       THEN /\ spawned = <<>>
            /\ IsPrefix(executed, CommandsOf(requests))
            /\ SelectSeq(turnBody, IsTerminalEvent) # <<>> => executed = CommandsOf(requests)
       ELSE /\ IsPrefix(spawned, TasksOf(requests))
            /\ TurnComplete => spawned = TasksOf(requests)
            /\ executed = <<>>

C8_Witness ==
  /\ CountEv(trace, "spawn") >= 1
  /\ Last(trace).e = "complete"
  /\ SelectSeq(TurnBody, IsGloopTaskExecute) # <<>>

(***************************************************************************)
(* C9.  A registry call for which a danger gate yields a description (the  *)
(* rm/rmdir pattern on Bash, or the tool's askPermission) gets exactly one *)
(* confirm before its execute; on a false reply execute is never called    *)
(* for it, its result is the denial, and the rest of the batch is still    *)
(* processed.  Calls without a description are executed unasked.           *)
(***************************************************************************)
NeedsConfirm(call) == call \in {BashRm, MyToolDangerous}
SkipsRegistry(call) == call \in {Nope, AskUserQ, ManageContextCall}
Denial(call) == [name |-> call.name, output |-> <<"User denied execution">>, success |-> FALSE]

GateOf(ev) == <<ev.e, ev.name, ev.ok>>
GatesOf(evs) == [i \in 1..Len(evs) |-> GateOf(evs[i])]

ExpectedGate(call, result) ==
  IF SkipsRegistry(call) THEN <<>>
  ELSE IF ~NeedsConfirm(call) THEN << <<"execute", call.name, result.success>> >>
  ELSE IF result = Denial(call) THEN << <<"confirm", call.name, FALSE>> >>
  ELSE << <<"confirm", call.name, TRUE>>, <<"execute", call.name, result.success>> >>

RECURSIVE ExpectedGates(_, _)
ExpectedGates(calls, results) ==
  IF results = <<>> THEN <<>>
  ELSE ExpectedGate(Head(calls), Head(results)) \o ExpectedGates(Tail(calls), Tail(results))

C9_ConfirmBeforeExecute ==
  InInvoke =>
    /\ GatesOf(SelectSeq(TurnBody, IsGateEvent)) =
         ExpectedGates(ctl.calls, ctl.results)
           \o (IF ctl.stage = "confirmed"
               THEN << <<"confirm", ctl.calls[ctl.i].name, TRUE>> >> ELSE <<>>)
    /\ ctl.stage = "confirmed" => NeedsConfirm(ctl.calls[ctl.i])
    /\ \A j \in 1..Len(ctl.results) :
         ctl.results[j] = Denial(ctl.calls[j]) => NeedsConfirm(ctl.calls[j])

C9_Witness ==
  /\ LoopDone
  /\ Len(ctl.calls) = 3
  /\ ctl.calls[1] = BashRm /\ ctl.results[1] = Denial(BashRm)
  /\ ctl.calls[2] = MyToolDangerous /\ ctl.results[2].success
  /\ ctl.calls[3] = ReadFileA /\ ctl.results[3].success

(***************************************************************************)
(* C10.  When a tool's execute raises, the Invoke step records a result    *)
(* with success = false for the call, emits toolDone(name, false), goes on *)
(* with the later calls and with the continuation; run() rejects only      *)
(* through a failed reboot, never through the tool's failure.              *)
(***************************************************************************)
IsFailedExecute(ev) == ev.e = "execute" /\ ~ev.ok
IsErrorResult(r) == ~r.success /\ r.output = <<"error in", r.name>>
IsErrorBlob(b) == b.status = "error" /\ b.output = <<"error in", b.name>>

C10_ExecuteFailureRecovered ==
  /\ \A p \in At(trace, "execute") :
       ~trace[p].ok =>
         /\ p < Len(trace)
         /\ trace[p + 1].e = "toolDone"
         /\ trace[p + 1].name = trace[p].name
         /\ ~trace[p + 1].ok
  /\ InInvoke =>
       MapName(SelectSeq(ctl.results, IsErrorResult)) =
         MapName(SelectSeq(TurnBody, IsFailedExecute))
  /\ LoopDone => Len(ctl.results) = Len(ctl.calls)
  /\ (TurnComplete /\ status = "running" /\ ~HasTerminalCall(LastReply)) =>
       MapName(SelectSeq(Head(stack).input, IsErrorBlob)) =
         MapName(SelectSeq(TurnBody, IsFailedExecute))
  /\ status = "threw" => Last(trace).e = "reboot" /\ ~Last(trace).ok
  /\ (status # "running" /\ SelectSeq(TurnBody, IsFailedExecute) # <<>>) =>
       IsTerminalEvent(Last(trace))

C10_Witness ==
  /\ TurnComplete /\ status = "running"
  /\ Len(Head(stack).input) = 2
  /\ IsErrorBlob(Head(stack).input[1])
  /\ Head(stack).input[2].status = "success"

(***************************************************************************)
(* C11 as stated.  A call whose name the registry does not hold executes   *)
(* nothing, yields {success: false, output: "Unknown tool: NAME"} and a    *)
(* toolDone(NAME, false), the rest of the batch is processed, and the run  *)
(* goes on with a Think that carries the error result.                     *)
(***************************************************************************)
IsUnknownCall(c) == c = Nope
UnknownNames == {"Nope"}
UnknownBlob(c) ==
  [t |-> "result", name |-> c.name, status |-> "error", output |-> <<"Unknown tool: ", c.name>>]
AsksUnknown(reply) == \E j \in 1..Len(CallsIn(reply)) : IsUnknownCall(CallsIn(reply)[j])

UnknownHandled ==
  /\ \A p \in 1..Len(trace) :
       trace[p].name \in UnknownNames =>
         /\ trace[p].e = "toolDone"
         /\ ~trace[p].ok
         /\ trace[p].text = <<"Unknown tool: ", trace[p].name>>
  /\ InInvoke =>
       /\ \A j \in 1..Len(ctl.results) :
            IsUnknownCall(ctl.calls[j]) =>
              ctl.results[j] = [name |-> ctl.calls[j].name,
                                output |-> <<"Unknown tool: ", ctl.calls[j].name>>,
                                success |-> FALSE]
       /\ Len(SelectSeq(TurnBody, LAMBDA ev : ev.name \in UnknownNames)) =
            Len(SelectSeq(SubSeq(ctl.calls, 1, ctl.i - 1), IsUnknownCall))
  /\ LoopDone => Len(ctl.results) = Len(ctl.calls)

ThinkCarriesUnknown ==
  /\ status = "running"
  /\ stack # <<>>
  /\ Head(stack).tag = "think"
  /\ \A j \in 1..Len(CallsIn(LastReply)) :
       IsUnknownCall(CallsIn(LastReply)[j]) =>
         /\ j <= Len(Head(stack).input)
         /\ Head(stack).input[j] = UnknownBlob(CallsIn(LastReply)[j])

TurnOver ==
  /\ ReplyReceived
  /\ \/ status \in {"returned", "exited", "threw"}
     \/ status = "running" /\ ctl.op = "eval" /\ stack # <<>> /\ Head(stack).tag = "think"

C11_AlwaysThink ==
  /\ UnknownHandled
  /\ (TurnOver /\ AsksUnknown(LastReply)) => ThinkCarriesUnknown

(***************************************************************************)
(* C11.  A call whose name the registry does not hold executes nothing,    *)
(* yields {success: false, output: "Unknown tool: NAME"} and a             *)
(* toolDone(NAME, false), and the rest of the batch is processed.  When    *)
(* the reply holds no CompleteTask or Reboot call the run goes on with a   *)
(* Think that carries the error result; with such a call the results are   *)
(* dropped and the terminal form is evaluated instead.                     *)
(***************************************************************************)
C11_UnknownToolRecovered ==
  /\ UnknownHandled
  /\ (TurnOver /\ AsksUnknown(LastReply)) =>
       IF HasTerminalCall(LastReply)
       THEN status # "running" /\ IsTerminalEvent(Last(trace))
       ELSE ThinkCarriesUnknown

C11_Witness ==
  /\ TurnOver
  /\ status = "running"
  /\ Len(CallsIn(LastReply)) = 2
  /\ IsUnknownCall(CallsIn(LastReply)[1])
  /\ CallsIn(LastReply)[2] = ReadFileA
  /\ Head(stack).input[2].status = "success"

(***************************************************************************)
(* Sessions with the custom tool whose askPermission consultation raises.  *)
(***************************************************************************)
HookVocabularies ==
  SmallVocabularies \cup {{ToolTok(HookToolCall), ToolTok(ReadFileA), ToolTok(CompleteTaskS1)}}

InitHooks ==
  /\ status = "idle"
  /\ input \in Inputs
  /\ vocab \in HookVocabularies
  /\ stack = <<>>
  /\ ctl = CtlEval
  /\ history = <<>>
  /\ trace = <<>>
  /\ toolCalls = 0
  /\ aborted = FALSE
  /\ turns = 0
  /\ used = 0

\* the TypeError of core.ts 469 (or the hook's own exception, 472) leaves
\* evalInvoke: nothing is pushed to results, no effect fires, run() rejects
InvokePermissionRaises ==
  /\ AtCall
  /\ ~IsInline(CurCall)
  /\ CurCall.name \in Registered
  /\ PermissionRaises(CurCall)
  /\ status' = "threw"
  /\ UNCHANGED <<input, vocab, stack, ctl, history, trace, toolCalls, aborted, turns, used>>

NextHooks ==
  \/ Next
  \/ InvokePermissionRaises

SpecHooks == InitHooks /\ [][NextHooks]_vars

\* C12: every error raised while evalInvoke processes one call (in the
\* askPermission hook, in building the argument mapping, in execute) becomes a
\* failed result that is fed back; the run is never terminated by one: the
\* only rejection of run() is a failed reboot, outside evalInvoke.
C12_CallErrorsRecovered ==
  status = "threw" =>
    /\ ctl.op = "eval"
    /\ trace # <<>>
    /\ Last(trace).e = "reboot"

(***************************************************************************)
(* Runs with a cancellation token (world.signal).  The token may fire at   *)
(* any moment; the code observes it at the head of eval_, at the head of   *)
(* each iteration of evalInvoke's loop and in the race of evalThink.  A    *)
(* spawn and a context-prune fork are two steps here, the call and the     *)
(* return of the child, so that the token can fire in between.             *)
(***************************************************************************)
AbortVocabularies == SmallVocabularies \cup {LongVocab}

InitAbort ==
  /\ status = "idle"
  /\ input \in Inputs
  /\ vocab \in AbortVocabularies
  /\ stack = <<>>
  /\ ctl = CtlEval
  /\ history = <<>>
  /\ trace = <<>>
  /\ toolCalls = 0
  /\ aborted = FALSE
  /\ turns = 0
  /\ used = 0

\* the user interrupts (AbortController.abort of the UI)
Abort ==
  /\ status \in {"idle", "running"}
  /\ ~aborted
  /\ aborted' = TRUE
  /\ UNCHANGED <<status, input, vocab, stack, ctl, history, trace, toolCalls, turns, used>>

\* eval_ throws AbortError at its entry (core.ts 274)
AbortAtEval ==
  /\ status = "running"
  /\ ctl.op = "eval"
  /\ stack # <<>>
  /\ aborted
  /\ status' = "aborted"
  /\ UNCHANGED <<input, vocab, stack, ctl, history, trace, toolCalls, aborted, turns, used>>

\* evalInvoke throws AbortError at the head of an iteration (core.ts 436)
AbortAtCall ==
  /\ status = "running"
  /\ ctl.op = "invoke"
  /\ ctl.stage = "call"
  /\ ctl.i <= Len(ctl.calls)
  /\ aborted
  /\ status' = "aborted"
  /\ UNCHANGED <<input, vocab, stack, ctl, history, trace, toolCalls, aborted, turns, used>>

\* variant: the partial text is not recorded
PartialMessage_Dropped(fullText) == <<>>

\* what the catch block appends to the history (core.ts 392-396)
PartialMessage(fullText) ==
  IF fullText # <<>> THEN <<Msg("assistant", fullText)>> ELSE <<>>

\* variant: next() is awaited alone, the token is not consulted while the
\* provider is silent
AbortInThink_NoRace ==
  /\ FALSE
  /\ UNCHANGED vars

\* the race of evalThink is lost to the token (core.ts 361-400): cleanup of
\* the iterator is requested and not awaited, the partial text is recorded,
\* AbortError is thrown again
AbortInThink ==
  /\ status = "running"
  /\ ctl.op = "think"
  /\ aborted
  /\ ctl' = [ctl EXCEPT !.stage = "returning"]
  /\ history' = history \o PartialMessage(ctl.fullText)
  /\ status' = "aborted"
  /\ UNCHANGED <<input, vocab, stack, trace, toolCalls, aborted, turns, used>>

\* the generator of AIConversation.stream takes the queued return(): at its
\* next yield if the provider sends another chunk, after its own push of the
\* assistant message if the provider's stream ends first (builder.ts stream)
IterReturnSettles ==
  /\ status = "aborted"
  /\ ctl.op = "think"
  /\ ctl.stage = "returning"
  /\ \E ended \in BOOLEAN :
       history' = IF ended /\ ctl.fullText # <<>>
                  THEN Append(history, Msg("assistant", ctl.fullText))
                  ELSE history
  /\ ctl' = [ctl EXCEPT !.stage = "settled"]
  /\ UNCHANGED <<status, input, vocab, stack, trace, toolCalls, aborted, turns, used>>

\* fx.spawn is called (core.ts 342): the child has no signal
SpawnStart ==
  /\ Entering("spawn")
  /\ ctl' = [ctl EXCEPT !.op = "spawn"]
  /\ UNCHANGED <<status, input, vocab, stack, history, trace, toolCalls, aborted, turns, used>>

\* the child returns and eval_ is entered on then(result) (core.ts 343)
SpawnReturn ==
  /\ status = "running"
  /\ ctl.op = "spawn"
  /\ \E ok \in BOOLEAN :
       /\ trace' = Append(trace, Ev("spawn", Head(stack).task, ok, <<>>))
       /\ Proceed(<<ApplySpawnThen(Head(stack), SpawnResultOf(ok, "summary"))>>
                  \o Tail(stack))
  /\ ctl' = CtlEval
  /\ UNCHANGED <<input, vocab, history, toolCalls, aborted, turns, used>>

\* the delete-set a fork may have collected: DeleteMessages keeps the indexes
\* i with 0 < i < history.length (manageContextFork, DeleteMessages)
DeleteSets(h) == IF Len(h) >= 2 THEN {{}, {Len(h)}} ELSE {{}}

\* history.filter((_, i) => !deleteSet.has(i)) (manageContextFork)
Pruned(h, D) ==
  LET F[i \in 0..Len(h)] ==
        IF i = 0 THEN <<>>
        ELSE IF i \in D THEN F[i - 1] ELSE Append(F[i - 1], h[i])
  IN F[Len(h)]

\* fx.manageContext is called (core.ts 448-451): the fork's world has no signal
ForkStart ==
  /\ AtCall
  /\ CurCall.name = "ManageContext"
  /\ trace' = trace \o <<Ev("toolStart", "ManageContext", TRUE, <<>>),
                         Ev("manageContext", "", TRUE,
                            ArgOr(CurCall, <<"Prune stale messages">>))>>
  /\ ctl' = [ctl EXCEPT !.stage = "fork"]
  /\ UNCHANGED <<status, input, vocab, stack, history, toolCalls, aborted, turns, used>>

\* variant: a fired token interrupts the fork, whose deletions are lost
ForkReturn_Interrupted ==
  /\ status = "running"
  /\ ctl.op = "invoke"
  /\ ctl.stage = "fork"
  /\ aborted
  /\ status' = "aborted"
  /\ UNCHANGED <<input, vocab, stack, ctl, history, trace, toolCalls, aborted, turns, used>>

\* the fork has run to its end: its deletions are applied, its summary is the
\* result (manageContextFork, core.ts 452-454)
ForkReturn ==
  /\ status = "running"
  /\ ctl.op = "invoke"
  /\ ctl.stage = "fork"
  /\ \E D \in DeleteSets(history) : history' = Pruned(history, D)
  /\ trace' = Append(trace, Ev("toolDone", "ManageContext", TRUE, <<"pruned">>))
  /\ NextCall(ToolResult("ManageContext", <<"pruned">>, TRUE))
  /\ UNCHANGED <<status, input, vocab, stack, toolCalls, aborted, turns, used>>

NextAbort ==
  \/ Run
  \/ EvalNil
  \/ EvalDone
  \/ EvalEmit
  \/ EvalRemember
  \/ EvalForget
  \/ EvalReboot
  \/ EvalSeq
  \/ EvalInstall
  \/ EvalListTools
  \/ SpawnStart
  \/ SpawnReturn
  \/ EvalThink
  \/ EvalInvoke
  \/ StreamChunk
  \/ StreamEnd
  \/ InvokeAskUser
  \/ ForkStart
  \/ ForkReturn
  \/ InvokeUnknown
  \/ InvokeConfirm
  \/ InvokeExecute
  \/ InvokeFinish
  \/ Abort
  \/ AbortAtEval
  \/ AbortAtCall
  \/ AbortInThink
  \/ IterReturnSettles

SpecAbort == InitAbort /\ [][NextAbort]_vars

\* C13: when the token has fired before run is called, run raises Aborted
\* and performs no effect: no request, no effect callback, the history as it
\* was; for every input, plain text or slash command.
NoEffectYet ==
  /\ trace = <<>>
  /\ history = <<>>
  /\ turns = 0
  /\ status \in {"idle", "running", "aborted"}

C13_AbortedBeforeRun == []((status = "idle" /\ aborted) => []NoEffectYet)

C13_Witness ==
  /\ status = "aborted"
  /\ NoEffectYet
  /\ input = <<"/install", "src">>

\* The rejection of abortPromise settles the race of core.ts 376: the event
\* loop runs that continuation.  Nothing is assumed of the provider or of the
\* iterator's cleanup: no fairness on StreamChunk, StreamEnd, IterReturnSettles.
SpecAbortLive == SpecAbort /\ WF_vars(AbortInThink)

\* C14: when the token fires while evalThink waits for the next chunk, the
\* run raises Aborted, even if the provider never delivers another chunk and
\* the iterator's return() never settles: at the raise the cleanup is pending.
WaitingForChunk == status = "running" /\ ctl.op = "think"

C14_AbortDoesNotWait ==
  (WaitingForChunk /\ aborted) ~> (status = "aborted" /\ ctl.stage = "returning")

C14_Witness ==
  /\ status = "aborted"
  /\ ctl.op = "think"
  /\ ctl.stage = "returning"
  /\ turns = 2

\* C15: at the step where a run that is waiting for a chunk raises Aborted,
\* the history ends with the user message of this Think followed by one
\* assistant message holding exactly the text accumulated so far; with
\* nothing accumulated it ends with the user message and gains nothing.
RaisesInThink == WaitingForChunk /\ status' = "aborted"

ThinkInput == trace[LastRequestAt].text

C15_PartialTextRecorded ==
  [][RaisesInThink =>
       /\ history # <<>>
       /\ Last(history) = Msg("user", ThinkInput)
       /\ history' = IF ctl.fullText # <<>>
                     THEN Append(history, Msg("assistant", ctl.fullText))
                     ELSE history]_vars

C15_Witness ==
  /\ status = "aborted"
  /\ ctl.op = "think"
  /\ ctl.stage = "returning"
  /\ Len(ctl.fullText) = 2
  /\ ctl.fullText[2] = ToolTok(ReadFileA)
  /\ Len(history) >= 2
  /\ Last(history) = Msg("assistant", ctl.fullText)
  /\ history[Len(history) - 1].role = "user"

\* A child is in progress: a subagent spawn or a context-prune fork.
InSpawn == status = "running" /\ ctl.op = "spawn"
InFork == status = "running" /\ ctl.op = "invoke" /\ ctl.stage = "fork"

\* the step is the child's return to a parent that goes on running
SpawnReturned ==
  /\ status' = "running"
  /\ ctl'.op = "eval"
  /\ Len(trace') = Len(trace) + 1
  /\ Last(trace').e = "spawn"
  /\ history' = history

ForkReturned ==
  /\ status' = "running"
  /\ \E D \in DeleteSets(history) : history' = Pruned(history, D)
  /\ ctl'.stage = "call"
  /\ ctl'.i = ctl.i + 1
  /\ Len(ctl'.results) = Len(ctl.results) + 1
  /\ Last(ctl'.results).name = "ManageContext"

\* the token has fired and the parent stands at a checkpoint or past the loop
AfterAbort ==
  /\ status = "running"
  /\ aborted
  /\ ctl.op \in {"eval", "invoke"}
  /\ ctl.stage \in {"", "call"}

\* events that start a tool call, a spawn or a Think
StartEvents == {"toolStart", "execute", "spawn", "request", "manageContext", "ask", "confirm"}

StartsNothing ==
  /\ IsPrefix(trace, trace')
  /\ \A i \in (Len(trace) + 1)..Len(trace') : trace'[i].e \notin StartEvents

RaisesAtOnce ==
  /\ status' = "aborted"
  /\ trace' = trace
  /\ history' = history

\* what evalInvoke does past its loop (core.ts 505-522)
AfterBatch ==
  /\ status' = "running"
  /\ ctl'.op = "eval"
  /\ history' = history
  /\ IsPrefix(trace, trace')
  /\ \A i \in (Len(trace) + 1)..Len(trace') :
       \/ trace'[i].e = "refreshSystem"
       \/ trace'[i].name = "ManageContext" /\ toolCalls + Len(ctl.calls) >= CONTEXT_PRUNE_INTERVAL
       \/ trace'[i].e = "manageContext" /\ toolCalls + Len(ctl.calls) >= CONTEXT_PRUNE_INTERVAL

MarkupVocabularies == SmallVocabularies \cup {FreeVocab}

InitMarkup ==
  /\ status = "idle"
  /\ input \in Inputs
  /\ vocab \in MarkupVocabularies
  /\ stack = <<>>
  /\ ctl = CtlEval
  /\ history = <<>>
  /\ trace = <<>>
  /\ toolCalls = 0
  /\ aborted = FALSE
  /\ turns = 0
  /\ used = 0

SpecMarkup == InitMarkup /\ [][Next]_vars

\* a complete tool block: an opening container tag, later its closing tag
HasCompleteBlock(text) ==
  \E i \in 1..Len(text) : \E j \in (i + 1)..Len(text) :
    text[i].t = "open" /\ text[j].t = "close"

\* the step ends the Think on the arrival of a chunk, not at the stream's end
BreaksEarly ==
  /\ WaitingForChunk
  /\ ctl'.op = "eval"
  /\ Len(history') = Len(history) + 1
  /\ Len(Last(history').content) = Len(ctl.fullText) + 1

\* C17: the Think step stops reading the stream before its end only when the
\* accumulated text holds a complete tool block, an opening container tag
\* followed later by its closing tag.
C17_BreakOnlyOnCompleteBlock ==
  [][BreaksEarly => HasCompleteBlock(Last(history').content)]_vars

\* C18: a Think step that is not aborted adds to the history the user
\* message of its input when it starts, nothing while chunks arrive, and when
\* it ends exactly one assistant message holding the accumulated raw text (no
\* message for an empty text), whether the stream ended or the step broke
\* early on a chunk; the form evaluated next is the parse of that same text.
ThinkStarts == status = "running" /\ ctl.op = "eval" /\ ctl'.op = "think"
ThinkEnds == WaitingForChunk /\ ctl'.op = "eval" /\ status' # "aborted"
ThinkGoesOn == WaitingForChunk /\ ctl'.op = "think" /\ status' # "aborted"

\* the texts the step can have accumulated when it ends
EndTexts == {ctl.fullText} \cup {Append(ctl.fullText, tk) : tk \in ProviderTokens(ctl.fullText)}

C18_OneAssistantMessage ==
  [][/\ ThinkStarts => history' = Append(history, Msg("user", Head(stack).input))
     /\ ThinkGoesOn => history' = history
     /\ ThinkEnds =>
          \E text \in EndTexts :
            /\ Head(stack') = parseToForm(text)
            /\ Len(trace') > Len(trace)
            /\ Last(trace').e = "streamDone"
            /\ history' = IF text # <<>>
                          THEN Append(history, Msg("assistant", text))
                          ELSE history]_vars

\* an early break on a block that holds a tool call has just been recorded
C18_Witness ==
  /\ vocab = FreeVocab
  /\ status = "running"
  /\ ctl.op = "eval"
  /\ stack # <<>>
  /\ Head(stack).tag = "invoke"
  /\ Len(history) = 2
  /\ history[1] = Msg("user", <<"hi">>)
  /\ history[2] = Msg("assistant", <<Open, ToolTok(ReadFileA), Close>>)

(***************************************************************************)
(* StreamFilter (ui.ts), character by character.  A text is a sequence of  *)
(* one-character strings.  Here `input` is the whole text a stream will    *)
(* carry, `used` the number of its characters already written, `ctl` the   *)
(* fields of the filter, `trace` the calls of its two callbacks.           *)
(***************************************************************************)
OPENING_TAGS ==
  << <<"<", "t", "o", "o", "l", "s", ">">>,
     <<"<", "r", "e", "m", "e", "m", "b", "e", "r", ">">>,
     <<"<", "f", "o", "r", "g", "e", "t", ">">>,
     <<"<", "|", "t", "o", "o", "l", "_", "c", "a", "l", "l", "s", "_", "s", "e", "c", "t", "i", "o", "n", "_", "b", "e", "g", "i", "n", "|", ">">> >>

CLOSING_FOR(tag) ==
  CASE tag = OPENING_TAGS[1] -> <<<<"<", "/", "t", "o", "o", "l", "s", ">">>>>
    [] tag = OPENING_TAGS[2] -> <<<<"<", "/", "r", "e", "m", "e", "m", "b", "e", "r", ">">>>>
    [] tag = OPENING_TAGS[3] -> <<<<"<", "/", "f", "o", "r", "g", "e", "t", ">">>>>
    [] tag = OPENING_TAGS[4] -> <<<<"<", "|", "t", "o", "o", "l", "_", "c", "a", "l", "l", "s", "_", "s", "e", "c", "t", "i", "o", "n", "_", "e", "n", "d", "|", ">">>>>

TOOL_CONTAINERS == {OPENING_TAGS[1], OPENING_TAGS[4]}

\* the fields a new filter starts with, and flush() and a closed region reset
NewFilter ==
  [state |-> "normal", buffer |-> <<>>, closingTags |-> <<>>, currentOpeningTag |-> <<>>,
   nestingDepth |-> 0, isToolContainer |-> FALSE, processedToolCount |-> 0]

\* String.prototype.endsWith
EndsWith(text, tag) ==
  /\ Len(tag) <= Len(text)
  /\ SubSeq(text, Len(text) - Len(tag) + 1, Len(text)) = tag

\* the least p >= from where `tag` occurs in `text`, 0 when there is none
IndexOf(text, tag, from) ==
  LET at == {p \in from..(Len(text) - Len(tag) + 1) : SubSeq(text, p, p + Len(tag) - 1) = tag}
  IN IF at = {} THEN 0 ELSE CHOOSE p \in at : \A q \in at : p <= q

\* the captures of /<tool>([\s\S]*?)<\/tool>/g from position `from`
RECURSIVE ToolBodies(_, _)
ToolBodies(text, from) ==
  LET p == IndexOf(text, <<"<", "t", "o", "o", "l", ">">>, from)
      q == IF p = 0 THEN 0 ELSE IndexOf(text, <<"<", "/", "t", "o", "o", "l", ">">>, p + 6)
  IN IF q = 0 THEN <<>>
     ELSE <<SubSeq(text, p + 6, q - 1)>> \o ToolBodies(text, q + 7)

\* \w, over the characters of the texts below
WordChars == {"A", "B", "t", "o", "l", "s", "x"}

\* body.trim().match(/^(\w+)\(/): the name, <<>> when there is no match
ToolName(body) ==
  LET blank == {i \in 1..Len(body) : body[i] # " "}
      trimmed == IF blank = {} THEN <<>>
                 ELSE SubSeq(body, CHOOSE i \in blank : \A j \in blank : i <= j,
                                   CHOOSE i \in blank : \A j \in blank : j <= i)
      word == {n \in 1..Len(trimmed) : \A i \in 1..n : trimmed[i] \in WordChars}
      n == IF word = {} THEN 0 ELSE CHOOSE k \in word : \A j \in word : j <= k
  IN IF n > 0 /\ n < Len(trimmed) /\ trimmed[n + 1] = "("
     THEN SubSeq(trimmed, 1, n) ELSE <<>>

\* emitNewTools (ui.ts 131-156): the calls of onToolParsed and the new count
emitNewTools(buffer, processedToolCount) ==
  LET bodies == ToolBodies(buffer, 1)
      named == {i \in 1..Len(bodies) : i > processedToolCount /\ ToolName(bodies[i]) # <<>>}
      F[i \in 0..Len(bodies)] ==
        IF i = 0 THEN <<>>
        ELSE IF i \in named THEN Append(F[i - 1], Ev("toolParsed", "", TRUE, ToolName(bodies[i])))
        ELSE F[i - 1]
  IN [count |-> Len(bodies), evs |-> F[Len(bodies)]]

\* variant: a buffer that is no tag prefix is dropped
FlushBuffer_Dropped(buffer) == <<>>

\* this.emit(this.buffer) (ui.ts 82, 160)
FlushBuffer(buffer) == <<Ev("emit", "", TRUE, buffer)>>

\* variant: the opening tag inside a region is not counted
NestingDepth_Flat(f, buffer) == f.nestingDepth

\* the depth after a character of a suppressed region (ui.ts 95-97)
NestingDepth(f, buffer) ==
  IF f.currentOpeningTag # <<>> /\ EndsWith(buffer, f.currentOpeningTag)
  THEN f.nestingDepth + 1 ELSE f.nestingDepth

\* one turn of the loop of write (ui.ts 52-127) on the filter st.f; st.out
\* collects the callbacks' calls
WriteChar(st, ch) ==
  LET f == st.f
      buffer == Append(f.buffer, ch)
  IN CASE f.state = "normal" ->
            IF ch = "<"
            THEN [st EXCEPT !.f.buffer = <<"<">>, !.f.state = "buffering"]
            ELSE [st EXCEPT !.out = Append(@, Ev("emit", "", TRUE, <<ch>>))]
       [] f.state = "buffering" ->
            IF \E k \in DOMAIN OPENING_TAGS : OPENING_TAGS[k] = buffer
            THEN [st EXCEPT !.f = [state |-> "suppressing", buffer |-> <<>>,
                                   closingTags |-> CLOSING_FOR(buffer),
                                   currentOpeningTag |-> buffer,
                                   nestingDepth |-> 0,
                                   isToolContainer |-> buffer \in TOOL_CONTAINERS,
                                   processedToolCount |-> 0]]
            ELSE IF \E k \in DOMAIN OPENING_TAGS : IsPrefix(buffer, OPENING_TAGS[k])
            THEN [st EXCEPT !.f.buffer = buffer]
            ELSE [st EXCEPT !.f.buffer = <<>>, !.f.state = "normal",
                            !.out = @ \o FlushBuffer(buffer)]
       [] f.state = "suppressing" ->
            LET depth == NestingDepth(f, buffer)
                scan1 == IF f.isToolContainer /\ EndsWith(buffer, <<"<", "/", "t", "o", "o", "l", ">">>)
                         THEN emitNewTools(buffer, f.processedToolCount)
                         ELSE [count |-> f.processedToolCount, evs |-> <<>>]
                closed == \E k \in DOMAIN f.closingTags : EndsWith(buffer, f.closingTags[k])
                scan2 == IF f.isToolContainer
                         THEN emitNewTools(buffer, scan1.count)
                         ELSE [count |-> scan1.count, evs |-> <<>>]
            IN IF closed /\ depth = 0
               THEN [f |-> NewFilter, out |-> st.out \o scan1.evs \o scan2.evs]
               ELSE [f |-> [f EXCEPT !.buffer = buffer,
                                     !.nestingDepth = IF closed THEN depth - 1 ELSE depth,
                                     !.processedToolCount = scan1.count],
                     out |-> st.out \o scan1.evs]

\* write(chunk)
RECURSIVE WriteChars(_, _)
WriteChars(st, chunk) ==
  IF chunk = <<>> THEN st ELSE WriteChars(WriteChar(st, Head(chunk)), Tail(chunk))

\* the pieces a streamed text is made of: prose, a lone "<", the container
\* tags and two tool elements
Segments ==
  { <<"t">>, <<"<">>, OPENING_TAGS[1], CLOSING_FOR(OPENING_TAGS[1])[1],
    <<"<", "t", "o", "o", "l", ">", "A", "(", "x", ")", "<", "/", "t", "o", "o", "l", ">">>,
    <<"<", "t", "o", "o", "l", ">", "B", "(", ")", "<", "/", "t", "o", "o", "l", ">">> }

SegSeqs == UNION {[1..n -> Segments] : n \in 0..MaxSegs}

InitFilter ==
  /\ status = "writing"
  /\ input \in {Flatten(segs) : segs \in SegSeqs}
  /\ vocab = {}
  /\ stack = <<>>
  /\ ctl = NewFilter
  /\ history = <<>>
  /\ trace = <<>>
  /\ toolCalls = 0
  /\ aborted = FALSE
  /\ turns = 0
  /\ used = 0

\* filter.write(chunk) with the next characters of the text (core.ts 380)
FilterWrite ==
  /\ status = "writing"
  /\ \E n \in 1..MaxChunk :
       /\ used + n <= Len(input)
       /\ LET st == WriteChars([f |-> ctl, out |-> <<>>], SubSeq(input, used + 1, used + n))
          IN /\ ctl' = st.f
             /\ trace' = trace \o st.out
       /\ used' = used + n
  /\ UNCHANGED <<status, input, vocab, stack, history, toolCalls, aborted, turns>>

\* filter.flush() when the stream is over (ui.ts 158-170, core.ts 413)
FilterFlush ==
  /\ status = "writing"
  /\ used = Len(input)
  /\ trace' = IF ctl.buffer # <<>> /\ ctl.state = "buffering"
              THEN trace \o FlushBuffer(ctl.buffer) ELSE trace
  /\ ctl' = NewFilter
  /\ status' = "flushed"
  /\ UNCHANGED <<input, vocab, stack, history, toolCalls, aborted, turns, used>>

NextFilter ==
  \/ FilterWrite
  \/ FilterFlush

SpecFilter == InitFilter /\ [][NextFilter]_vars

\* what the sink has received, and the names onToolParsed was called with
IsEmit(ev) == ev.e = "emit"
IsToolParsed(ev) == ev.e = "toolParsed"
Emitted == Flatten(TextsOf(SelectSeq(trace, IsEmit)))
ParsedNames == TextsOf(SelectSeq(trace, IsToolParsed))

ContainsOpeningTag(text) ==
  \E k \in DOMAIN OPENING_TAGS : IndexOf(text, OPENING_TAGS[k], 1) # 0

\* C19: a text without any opening tag reaches the sink unchanged, however
\* it is cut into chunks: while it is written the sink holds all of it but
\* the buffered start of a possible tag, and after flush all of it; no
\* character is lost, doubled or moved, "<" and tag prefixes included.
C19_PlainTextUnchanged ==
  ~ContainsOpeningTag(input) =>
    /\ ParsedNames = <<>>
    /\ status = "writing" =>
         /\ ctl.state # "suppressing"
         /\ Emitted \o ctl.buffer = SubSeq(input, 1, used)
    /\ status = "flushed" => Emitted = input

\* the text ended inside a tag prefix, which flush handed to the sink
C19_Witness ==
  /\ status = "flushed"
  /\ input = <<"t", "<", "<", "t", "o", "o", "l", ">", "A", "(", "x", ")", "<", "/", "t", "o", "o", "l", ">", "<">>
  /\ Emitted = input
  /\ Last(trace).text = <<"<">>

\* texts with exactly one <tools> region of well-formed elements
PlainTexts == {<<>>, <<"t">>, <<"<">>, <<"t", "<">>}
ToolElements == {seg \in Segments : IsPrefix(<<"<", "t", "o", "o", "l", ">">>, seg)}
ElementSeqs == UNION {[1..n -> ToolElements] : n \in 0..2}
RegionText(pre, elems, post) ==
  pre \o OPENING_TAGS[1] \o Flatten(elems) \o CLOSING_FOR(OPENING_TAGS[1])[1] \o post
ElementNames(elems) == [i \in 1..Len(elems) |-> <<elems[i][7]>>]

\* C20: for a text with exactly one <tools>...</tools> region of K
\* well-formed elements, whatever precedes and follows it and however it is
\* cut into chunks, onToolParsed is called K times, once per element in
\* order, and the sink receives the text around the region and nothing of it.
C20_RegionSuppressed ==
  status = "flushed" =>
    \A pre \in PlainTexts, post \in PlainTexts, elems \in ElementSeqs :
      input = RegionText(pre, elems, post) =>
        /\ ParsedNames = ElementNames(elems)
        /\ Emitted = pre \o post

\* ---------------------------------------------------------------------
\* Nested regions: texts made of prose, <tools> and </tools> only, one
\* segment longer than the texts above so that a region that holds a region
\* can be followed by text.
TagSegments == {<<"t">>, OPENING_TAGS[1], CLOSING_FOR(OPENING_TAGS[1])[1]}

InitNesting ==
  /\ status = "writing"
  /\ input \in {Flatten(segs) : segs \in UNION {[1..n -> TagSegments] : n \in 0..(MaxSegs + 1)}}
  /\ vocab = {}
  /\ stack = <<>>
  /\ ctl = NewFilter
  /\ history = <<>>
  /\ trace = <<>>
  /\ toolCalls = 0
  /\ aborted = FALSE
  /\ turns = 0
  /\ used = 0

SpecNesting == InitNesting /\ [][NextFilter]_vars

\* the positions of `text` where `tag` starts, at or after `from`, and ending
\* at or before `to`
Occurrences(text, tag, from, to) ==
  {p \in from..(to - Len(tag) + 1) : SubSeq(text, p, p + Len(tag) - 1) = tag}

\* the position where the closing tag ends that balances the opening tag
\* starting at p: the first closing tag with one more closing than opening
\* tags between the opening tag and its end; 0 when the text has none
BalancingEnd(text, p) ==
  LET T == OPENING_TAGS[1]
      Cl == CLOSING_FOR(T)[1]
      from == p + Len(T)
      ends == {q \in from..Len(text) :
                 /\ EndsWith(SubSeq(text, from, q), Cl)
                 /\ Cardinality(Occurrences(text, Cl, from, q))
                      = Cardinality(Occurrences(text, T, from, q)) + 1}
  IN IF ends = {} THEN 0 ELSE CHOOSE q \in ends : \A r \in ends : q <= r

\* what a text shows when every region from an opening tag to its balancing
\* closing tag is left out: the shown text, whether the text ends inside a
\* region, and that region's open inner regions
RECURSIVE Balanced(_, _)
Balanced(text, from) ==
  LET T == OPENING_TAGS[1]
      p == IndexOf(text, T, from)
      e == IF p = 0 THEN 0 ELSE BalancingEnd(text, p)
  IN IF p = 0 THEN [out |-> SubSeq(text, from, Len(text)), inside |-> FALSE, depth |-> 0]
     ELSE IF e = 0
     THEN [out |-> SubSeq(text, from, p - 1), inside |-> TRUE,
           depth |-> Cardinality(Occurrences(text, T, p + Len(T), Len(text)))
                     - Cardinality(Occurrences(text, CLOSING_FOR(T)[1], p + Len(T), Len(text)))]
     ELSE LET rest == Balanced(text, e + 1)
          IN [rest EXCEPT !.out = SubSeq(text, from, p - 1) \o @]

\* C21: in a text of prose, <tools> and </tools>, however it is cut into
\* chunks, the filter is suppressing exactly while the text written so far
\* ends inside a region that its balancing closing tag has not closed; the
\* depth counter is the number of inner regions still open and never
\* negative; the sink has received the text outside the regions and nothing
\* of them, the text after a balancing closing tag included.
C21_NestingBalanced ==
  LET b == Balanced(SubSeq(input, 1, used), 1)
  IN /\ ctl.nestingDepth >= 0
     /\ status = "writing" =>
          /\ (ctl.state = "suppressing") = b.inside
          /\ ctl.nestingDepth = b.depth
          /\ Emitted \o (IF ctl.state = "buffering" THEN ctl.buffer ELSE <<>>) = b.out
     /\ status = "flushed" => Emitted = Balanced(input, 1).out

\* a region holding a region was followed by text, which the sink received
C21_Witness ==
  /\ status = "flushed"
  /\ input = OPENING_TAGS[1] \o OPENING_TAGS[1] \o CLOSING_FOR(OPENING_TAGS[1])[1]
              \o CLOSING_FOR(OPENING_TAGS[1])[1] \o <<"t">>
  /\ Emitted = <<"t">>

\* ---------------------------------------------------------------------
\* The prune counter: runs whose batches add up to less than, exactly and
\* more than the interval, over several batches and (the long model) in one.
InitCounter ==
  /\ status = "idle"
  /\ input \in Inputs
  /\ vocab \in SmallVocabularies \cup {CountVocab, LongVocab}
  /\ stack = <<>>
  /\ ctl = CtlEval
  /\ history = <<>>
  /\ trace = <<>>
  /\ toolCalls = 0
  /\ aborted = FALSE
  /\ turns = 0
  /\ used = 0

SpecCounter == InitCounter /\ [][Next]_vars

\* the automatic prune's call of effects.manageContext
IsAutoPrune(ev) ==
  ev.e = "manageContext" /\ ev.text = <<"Prune old tool results">>

\* the step that ends an Invoke step: the loop is over and the continuation's
\* form is handed to eval_
EndsInvoke == ctl.op = "invoke" /\ ctl.i > Len(ctl.calls) /\ ctl'.op = "eval"

InitSession ==
  /\ status = "idle"
  /\ input \in Inputs
  /\ vocab \in SmallVocabularies \cup {{ToolTok(Call("Reload", <<>>)), ToolTok(BashLs)}}
  /\ stack = <<>>
  /\ ctl = CtlEval
  /\ history = <<>>
  /\ trace = <<>>
  /\ toolCalls = 0
  /\ aborted = FALSE
  /\ turns = 0
  /\ used = 0

\* runAgent for the next input: a new world on the same conversation and
\* registry, then run (index.ts 97-98, 159)
NextInput ==
  /\ status = "returned"
  /\ StartsWithSlash(Head(input))
  /\ CountEv(trace, "streamDone") = 1
  /\ \E next \in Inputs :
       /\ input' = next
       /\ stack' = <<parseInput(next)>>
  /\ status' = "running"
  /\ ctl' = CtlEval
  /\ toolCalls' = 0
  /\ UNCHANGED <<vocab, history, trace, aborted, turns, used>>

NextSession ==
  \/ Next
  \/ NextInput

SpecSession == InitSession /\ [][NextSession]_vars

\* an event after which the registry may hold other tools: installTool has
\* run Reload's execute, or a batch has
MutatesRegistry(ev) ==
  \/ ev.e = "installTool"
  \/ ev.e = "execute" /\ ev.name = "Reload"

\* C23: every LLM request that follows a mutation of the registry (a Reload
\* call executed in a batch, or installTool called for an Install form) has
\* a refreshSystem between the mutation and itself.
C23_RefreshBeforeThink ==
  \A i \in 1..Len(trace), j \in At(trace, "request") :
    (MutatesRegistry(trace[i]) /\ i < j) =>
      \E k \in At(trace, "refreshSystem") : i < k /\ k < j

(***************************************************************************)
(* The life of the process: startup, the reboot effect, exit, and the      *)
(* launcher that waits for the child.  Here `status` is where the process  *)
(* and its launcher are, `history` the conversation of the live process,   *)
(* `turns` the process starts so far, `used` the messages added and the   *)
(* writes failed so far, and `ctl` holds the mode, the session file, the last exit code   *)
(* and the reason the live process was started with.                       *)
(***************************************************************************)
REBOOT_EXIT_CODE == 75

NoFile == [kind |-> "none", session |-> <<>>]
\* what a write that failed half way may leave behind
CorruptFile == [kind |-> "corrupt", session |-> <<>>]

\* saveRebootSession (session.ts 19-27): the file Bun.write leaves
saveRebootSession(h, reason) ==
  [kind |-> "json", session |-> [history |-> h, reason |-> reason, timestamp |-> "now"]]

\* loadRebootSession (session.ts 29-41): the session returned (none: <<>>)
\* and the file left; unlinkSync is reached only after file.json() returned
loadRebootSession(file) ==
  IF file.kind = "none" THEN [session |-> <<>>, file |-> file]
  ELSE IF file.kind = "json" THEN [session |-> <<file.session>>, file |-> NoFile]
  ELSE [session |-> <<>>, file |-> file]

Proc(mode, file, code, reason) ==
  [mode |-> mode, file |-> file, code |-> code, reason |-> reason]

InitProcess ==
  /\ status = "starting"
  /\ ctl \in {Proc(mode, NoFile, 0, <<>>) : mode \in {"interactive", "headless"}}
  /\ input = <<>>
  /\ vocab = {}
  /\ stack = <<>>
  /\ history = <<>>
  /\ trace = <<>>
  /\ toolCalls = 0
  /\ aborted = FALSE
  /\ turns = 1
  /\ used = 0

\* startup: loadRebootSession, convo.setHistory, the reason handed to the UI
\* (index.ts 82-96; headless 330-335)
Startup ==
  /\ status = "starting"
  /\ LET loaded == loadRebootSession(ctl.file)
     IN IF loaded.session # <<>>
        THEN /\ history' = loaded.session[1].history
             /\ ctl' = [ctl EXCEPT !.file = loaded.file, !.reason = <<loaded.session[1].reason>>]
             /\ trace' = Append(trace, Ev("start", ctl.mode, TRUE, <<loaded.session[1].reason>>))
        ELSE /\ history' = <<>>
             /\ ctl' = [ctl EXCEPT !.file = loaded.file, !.reason = <<>>]
             /\ trace' = Append(trace, Ev("start", ctl.mode, FALSE, <<>>))
  /\ status' = "running"
  /\ UNCHANGED <<input, vocab, stack, toolCalls, aborted, turns, used>>

\* a run adds a message to the conversation (AIConversation.stream)
Converse ==
  /\ status = "running"
  /\ used < MaxElems
  /\ \E role \in {"user", "assistant"} :
       history' = Append(history, Msg(role, <<"hi">>))
  /\ used' = used + 1
  /\ UNCHANGED <<status, input, vocab, stack, ctl, trace, toolCalls, aborted, turns>>

\* how fx.reboot ends the process once the session is saved: the UI's exits
\* with 75 (index.ts 130-138), the headless one starts its own successor and
\* exits with 0 (headless 426-434)
RebootExit(mode) ==
  IF mode = "interactive" THEN [code |-> REBOOT_EXIT_CODE, respawned |-> FALSE]
  ELSE [code |-> 0, respawned |-> TRUE]

\* fx.reboot(reason, convo) called by eval_ (core.ts 312-314): save, then
\* exit; a write that fails rejects, the run throws and the process lives on
FxReboot ==
  /\ status = "running"
  /\ \E reason \in {"r1", "r2"}, saved \in BOOLEAN :
       IF saved
       THEN /\ used' = used
            /\ trace' = Append(trace, Ev("reboot", ctl.mode, TRUE, <<reason>>))
            /\ ctl' = [ctl EXCEPT !.file = saveRebootSession(history, reason),
                                  !.code = RebootExit(ctl.mode).code]
            /\ IF RebootExit(ctl.mode).respawned
               THEN /\ turns <= MaxToolTurns
                    /\ status' = "starting"
                    /\ turns' = turns + 1
               ELSE /\ status' = "exited"
                    /\ turns' = turns
       ELSE /\ used < MaxElems
            /\ used' = used + 1
            /\ trace' = Append(trace, Ev("reboot", ctl.mode, FALSE, <<reason>>))
            /\ \E left \in {ctl.file, CorruptFile} : ctl' = [ctl EXCEPT !.file = left]
            /\ UNCHANGED <<status, turns>>
  /\ UNCHANGED <<input, vocab, stack, history, toolCalls, aborted>>

\* the process ends otherwise: the user leaves the UI, the headless run is
\* over (headless 491), or the process fails
ProcessExit ==
  /\ status = "running"
  /\ \E code \in (IF ctl.mode = "interactive" THEN {0, 1} ELSE {0}) :
       ctl' = [ctl EXCEPT !.code = code]
  /\ status' = IF ctl.mode = "interactive" THEN "exited" ELSE "stopped"
  /\ trace' = Append(trace, Ev("exit", ctl.mode, TRUE, <<>>))
  /\ UNCHANGED <<input, vocab, stack, history, toolCalls, aborted, turns, used>>

\* the launcher's loop once the child has exited (shell.ts 238-249)
LauncherLoop ==
  /\ status = "exited"
  /\ IF ctl.code = REBOOT_EXIT_CODE
     THEN /\ turns <= MaxToolTurns
          /\ status' = "starting"
          /\ turns' = turns + 1
     ELSE /\ status' = "stopped"
          /\ turns' = turns
  /\ UNCHANGED <<input, vocab, stack, ctl, history, trace, toolCalls, aborted, used>>

\* the user starts the program again in the same directory
Relaunch ==
  /\ status = "stopped"
  /\ turns <= MaxToolTurns
  /\ status' = "starting"
  /\ turns' = turns + 1
  /\ UNCHANGED <<input, vocab, stack, ctl, history, trace, toolCalls, aborted, used>>

NextProcess ==
  \/ Startup
  \/ Converse
  \/ FxReboot
  \/ ProcessExit
  \/ LauncherLoop
  \/ Relaunch

SpecProcess == InitProcess /\ [][NextProcess]_vars

\* the step in which fx.reboot ends the process
RebootEnds == status = "running" /\ status' # "running" /\ Last(trace').e = "reboot"
\* the step in which fx.reboot rejects
RebootRejects == status = "running" /\ trace' # trace /\ Last(trace').e = "reboot" /\ ~Last(trace').ok

\* C24: in both modes, when the reboot effect ends the process the exit code
\* is 75 and the session file holds the history and the reason; when the
\* write fails the process goes on running.
C24_RebootExitsWith75 ==
  [][/\ RebootEnds =>
          /\ ctl'.code = REBOOT_EXIT_CODE
          /\ ctl'.file.kind = "json"
          /\ ctl'.file.session.history = history
          /\ <<ctl'.file.session.reason>> = Last(trace').text
     /\ RebootRejects => status' = "running"]_vars

\* C25: the launcher starts the agent again exactly when the child's exit
\* code is 75 and otherwise stops with the child's code; the file a reboot
\* wrote reaches the next start untouched; a start that finds a session
\* installs its history and reason before any input is processed; and
\* whatever file a start finds, it leaves none.
C25_RebootRoundTrip ==
  [][/\ status = "exited" =>
          /\ status' = (IF ctl.code = REBOOT_EXIT_CODE THEN "starting" ELSE "stopped")
          /\ ctl' = ctl
     /\ RebootEnds => ctl'.file = saveRebootSession(history, Last(trace').text[1])
     /\ status = "starting" =>
          /\ status' = "running"
          /\ ctl'.file = NoFile
          /\ ctl.file.kind = "json" =>
               /\ history' = ctl.file.session.history
               /\ ctl'.reason = <<ctl.file.session.reason>>]_vars

(***************************************************************************)
(* The context fork's tools (manageContextFork).  Here `input` is the      *)
(* snapshot `history` the fork works on, `history` the outer conversation, *)
(* `stack` the list toDelete, `trace` the calls the fork's model has made  *)
(* and `used` their size.  An argument text is a sequence of characters.   *)
(***************************************************************************)
Digits == <<"0", "1", "2", "3", "4", "5", "6", "7", "8", "9">>
IsDigit(c) == \E d \in DOMAIN Digits : Digits[d] = c
DigitOf(c) == (CHOOSE d \in DOMAIN Digits : Digits[d] = c) - 1

\* parseInt(text) without a radix: an optional sign, the prefix 0x for base
\* 16, then the longest run of digits; NaN when there is no digit.  (The
\* base-16 letters are not among the characters used here.)
parseInt(text) ==
  LET t == Trim(text)
      signed == t # <<>> /\ t[1] \in {"-", "+"}
      body == IF signed THEN Tail(t) ELSE t
      hex == Len(body) >= 2 /\ body[1] = "0" /\ body[2] \in {"x", "X"}
      ds == IF hex THEN SubSeq(body, 3, Len(body)) ELSE body
      runs == {n \in 0..Len(ds) : \A i \in 1..n : IsDigit(ds[i])}
      n == CHOOSE k \in runs : \A j \in runs : j <= k
      V[i \in 0..n] == IF i = 0 THEN 0 ELSE V[i - 1] * (IF hex THEN 16 ELSE 10) + DigitOf(ds[i])
  IN IF n = 0 THEN [nan |-> TRUE, n |-> 0]
     ELSE [nan |-> FALSE, n |-> IF signed /\ t[1] = "-" THEN 0 - V[n] ELSE V[n]]

\* text.split(",")
RECURSIVE Split(_)
Split(text) ==
  LET p == IndexOf(text, <<",">>, 1)
  IN IF p = 0 THEN <<text>>
     ELSE <<SubSeq(text, 1, p - 1)>> \o Split(SubSeq(text, p + 1, Len(text)))

\* variant: index 0 passes the filter
SafeIndex_FromZero(i, length) == i >= 0 /\ i < length

\* i > 0 && i < history.length (DeleteMessages)
SafeIndex(i, length) == i > 0 /\ i < length

\* DeleteMessages.execute: the indexes it pushes on toDelete
DeleteMessages(indexes, length) ==
  LET parts == Split(indexes)
      Numeric(q) == ~q.nan
      Safe(q) == SafeIndex(q.n, length)
      idxs == SelectSeq([k \in 1..Len(parts) |-> parseInt(parts[k])], Numeric)
      safe == SelectSeq(idxs, Safe)
  IN [k \in 1..Len(safe) |-> safe[k].n]

\* the index texts the fork's model writes, and a call's argument made of them
IndexTexts ==
  {<<"1">>, <<"2">>, <<"0">>, <<"7">>, <<"x">>, <<"2", "x">>, <<" ", "1">>}

Joined(texts) ==
  IF Len(texts) = 1 THEN texts[1] ELSE texts[1] \o <<",">> \o texts[2]

InitFork ==
  /\ status = "fork"
  /\ history \in {[i \in 1..n |-> Msg(IF i % 2 = 1 THEN "user" ELSE "assistant", <<i>>)] : n \in 1..MaxElems}
  /\ input = history
  /\ vocab = {}
  /\ stack = <<>>
  /\ ctl = CtlEval
  /\ trace = <<>>
  /\ toolCalls = 0
  /\ aborted = FALSE
  /\ turns = 0
  /\ used = 0

\* the fork's model calls ViewMessage: nothing is marked
ForkViewMessage ==
  /\ status = "fork"
  /\ used < MaxElems
  /\ \E text \in {<<"1">>, <<"x">>} :
       trace' = Append(trace, Ev("execute", "ViewMessage", TRUE, <<text>>))
  /\ used' = used + 1
  /\ UNCHANGED <<status, input, vocab, stack, ctl, history, toolCalls, aborted, turns>>

\* the fork's model calls DeleteMessages with one or two index texts
ForkDeleteMessages ==
  /\ status = "fork"
  /\ \E texts \in UNION {[1..n -> IndexTexts] : n \in 1..2} :
       /\ used + Len(texts) <= MaxElems
       /\ used' = used + Len(texts)
       /\ stack' = stack \o DeleteMessages(Joined(texts), Len(input))
       /\ trace' = Append(trace, Ev("execute", "DeleteMessages", TRUE, texts))
  /\ UNCHANGED <<status, input, vocab, ctl, history, toolCalls, aborted, turns>>

\* the fork's run is over: the deletions are applied to the conversation
ForkApply ==
  /\ status = "fork"
  /\ history' = Pruned(input, {stack[k] + 1 : k \in 1..Len(stack)})
  /\ status' = "returned"
  /\ UNCHANGED <<input, vocab, stack, ctl, trace, toolCalls, aborted, turns, used>>

NextFork ==
  \/ ForkViewMessage
  \/ ForkDeleteMessages
  \/ ForkApply

SpecFork == InitFork /\ [][NextFork]_vars

\* the index texts of all DeleteMessages calls made
TextsGiven ==
  UNION {{trace[k].text[j] : j \in 1..Len(trace[k].text)} :
           k \in {k \in 1..Len(trace) : trace[k].name = "DeleteMessages"}}

\* the index a text stands for when only a whole number counts ...
WholeNumber(text) ==
  CASE text = <<"1">> -> {1}
    [] text = <<" ", "1">> -> {1}
    [] text = <<"2">> -> {2}
    [] text = <<"0">> -> {0}
    [] text = <<"7">> -> {7}
    [] OTHER -> {}

\* ... and when a number followed by other characters counts as well
LeadingNumber(text) == IF text = <<"2", "x">> THEN {2} ELSE WholeNumber(text)

\* h without the messages at the (0-based) indexes R, in h's order
Without(h, R) ==
  LET keep == {i \in 1..Len(h) : (i - 1) \notin R}
  IN [k \in 1..Cardinality(keep) |->
        h[CHOOSE i \in keep : Cardinality({j \in keep : j < i}) = k - 1]]

InitInFork ==
  /\ status = "idle"
  /\ input = <<"Instructions:", "prune">>
  /\ vocab \in {{ToolTok(ManageContextCall), ToolTok(CompleteTaskS1)}, LongVocab}
  /\ stack = <<>>
  /\ ctl = CtlEval
  /\ history = <<>>
  /\ trace = <<>>
  /\ toolCalls = 0
  /\ aborted = FALSE
  /\ turns = 0
  /\ used = 0

\* variant: the fork's effect runs a fork of its own, which prunes
silentManageContext_Nests(h) ==
  [result |-> <<"pruned">>, history |-> Pruned(h, {Len(h)}), forks |-> 1]

\* silentFx.manageContext (part_005 100): the text it resolves to, the
\* conversation it leaves, the forks it starts
silentManageContext(h) ==
  [result |-> <<"Cannot nest ManageContext">>, history |-> h, forks |-> 0]

\* a ManageContext call in the fork's batch (core.ts 448-455 with silentFx)
SilentManageContext ==
  /\ AtCall
  /\ CurCall.name = "ManageContext"
  /\ LET r == silentManageContext(history)
     IN /\ trace' = trace \o <<Ev("toolStart", "ManageContext", TRUE, <<>>),
                               Ev("manageContext", "", r.forks = 0,
                                  ArgOr(CurCall, <<"Prune stale messages">>)),
                               Ev("toolDone", "ManageContext", TRUE, r.result)>>
        /\ history' = r.history
        /\ NextCall(ToolResult("ManageContext", r.result, TRUE))
  /\ UNCHANGED <<status, input, vocab, stack, toolCalls, aborted, turns, used>>

\* the end of the fork's batch (core.ts 505-522 with silentFx)
SilentFinish ==
  /\ status = "running"
  /\ ctl.op = "invoke"
  /\ ctl.stage = "call"
  /\ ctl.i > Len(ctl.calls)
  /\ LET hasReload == \E j \in 1..Len(ctl.calls) : IsReload(ctl.calls[j])
         n == toolCalls + Len(ctl.calls)
         prune == PruneDue(n)
         r == silentManageContext(history)
     IN /\ trace' = trace
             \o (IF hasReload THEN <<Ev("refreshSystem", "", TRUE, <<>>)>> ELSE <<>>)
             \o (IF prune
                 THEN <<Ev("toolStart", "ManageContext", TRUE, <<>>),
                        Ev("manageContext", "", r.forks = 0, <<"Prune old tool results">>),
                        Ev("toolDone", "ManageContext", TRUE, r.result)>>
                 ELSE <<>>)
        /\ history' = IF prune THEN r.history ELSE history
        /\ toolCalls' = IF prune THEN 0 ELSE n
  /\ ctl' = CtlEval
  /\ Proceed(<<ApplyThen(ctl.then, ctl.results)>> \o stack)
  /\ UNCHANGED <<input, vocab, aborted, turns, used>>

NextInFork ==
  \/ Run
  \/ EvalNil
  \/ EvalDone
  \/ EvalThink
  \/ EvalInvoke
  \/ StreamChunk
  \/ StreamEnd
  \/ SilentManageContext
  \/ SilentFinish

SpecInFork == InitInFork /\ [][NextInFork]_vars

\* the step calls the manageContext effect
CallsManageContext ==
  \E k \in (Len(trace) + 1)..Len(trace') : trace'[k].e = "manageContext"

\* C27: inside the fork every call of the manageContext effect, for a
\* ManageContext call of the fork's model and for the automatic prune at 50
\* counted calls alike, starts no fork, resolves to a text that toolDone
\* reports, and leaves the fork's conversation as it was; no step of the
\* fork's run enters a fork.
C27_NoNestedFork ==
  [][/\ ctl'.stage # "fork"
     /\ CallsManageContext =>
          /\ history' = history
          /\ \A k \in (Len(trace) + 1)..Len(trace') :
               /\ trace'[k].e = "manageContext" => trace'[k].ok
               /\ (trace'[k].e = "toolDone" /\ trace'[k].name = "ManageContext") =>
                    trace'[k].text = <<"Cannot nest ManageContext">>]_vars

\* the fork's model has made 50 ManageContext calls in one batch, all of
\* them refused, and the automatic prune that the counter then asked for was
\* refused as well
C27_Witness ==
  /\ CountEv(trace, "manageContext") = CONTEXT_PRUNE_INTERVAL + 1
  /\ IsAutoPrune(trace[Len(trace) - 1])
  /\ Last(trace).text = <<"Cannot nest ManageContext">>
  /\ toolCalls = 0
  /\ Len(history) = 2

(***************************************************************************)
(* The UI's input queue (App).  Here `used` counts the inputs submitted,   *)
(* which are numbered in that order, `stack` is queueRef.current, `trace`  *)
(* the submissions, starts and ends of runs, and `ctl` holds               *)
(* processingRef.current, the state of abortRef.current, the inputs whose  *)
(* runAgent call is pending and the inputs an Escape removed.              *)
(***************************************************************************)
InitQueue ==
  /\ status = "ui"
  /\ ctl = [processing |-> FALSE, abort |-> "none", active |-> {}, cleared |-> {}]
  /\ stack = <<>>
  /\ trace = <<>>
  /\ used = 0
  /\ input = <<>>
  /\ vocab = {}
  /\ history = <<>>
  /\ toolCalls = 0
  /\ aborted = FALSE
  /\ turns = 0

\* processInput up to its await: processingRef, a new AbortController,
\* runAgent is called (part_000 216-223, 268)
StartRun(c, id) ==
  [c EXCEPT !.processing = TRUE, !.abort = "armed", !.active = @ \cup {id}]

\* variant: the newest queued input is taken
Dequeue_Newest(q) == [next |-> q[Len(q)], rest |-> SubSeq(q, 1, Len(q) - 1)]

\* queueRef.current.shift() on a queue that is not empty (part_000 304)
Dequeue(q) == [next |-> Head(q), rest |-> Tail(q)]

\* handleSubmit (part_000 314-323)
Submit ==
  /\ used < MaxElems
  /\ used' = used + 1
  /\ IF ctl.processing
     THEN /\ stack' = Append(stack, used + 1)
          /\ trace' = Append(trace, Ev("submit", "", TRUE, <<used + 1>>))
          /\ ctl' = ctl
     ELSE /\ stack' = stack
          /\ trace' = trace \o <<Ev("submit", "", TRUE, <<used + 1>>),
                                  Ev("start", "", TRUE, <<used + 1>>)>>
          /\ ctl' = StartRun(ctl, used + 1)
  /\ UNCHANGED <<status, input, vocab, history, toolCalls, aborted, turns>>

\* runAgent settles and processInput goes on: the error is shown, the
\* controller dropped, the next queued input started (part_000 268-311)
RunEnds ==
  /\ \E id \in ctl.active, how \in {"returned", "error", "aborted"} :
       /\ how = "aborted" => ctl.abort = "fired"
       /\ LET c == [ctl EXCEPT !.active = @ \ {id}, !.abort = "none"]
          IN IF stack # <<>>
             THEN /\ ctl' = StartRun(c, Dequeue(stack).next)
                  /\ stack' = Dequeue(stack).rest
                  /\ trace' = trace \o <<Ev("end", how, TRUE, <<id>>),
                                          Ev("start", "", TRUE, <<Dequeue(stack).next>>)>>
             ELSE /\ ctl' = [c EXCEPT !.processing = FALSE]
                  /\ stack' = stack
                  /\ trace' = Append(trace, Ev("end", how, TRUE, <<id>>))
  /\ UNCHANGED <<status, input, vocab, history, toolCalls, aborted, turns, used>>

\* variant: the token is fired and the queue kept
Escape_KeepsQueue ==
  /\ IF ctl.abort # "none"
     THEN /\ ctl' = [ctl EXCEPT !.abort = "fired",
                                !.cleared = @ \cup {stack[k] : k \in 1..Len(stack)}]
          /\ stack' = stack
     ELSE UNCHANGED <<ctl, stack>>
  /\ UNCHANGED <<status, input, vocab, history, trace, toolCalls, aborted, turns, used>>

\* handleEscape (part_000 326-331)
Escape ==
  /\ IF ctl.abort # "none"
     THEN /\ ctl' = [ctl EXCEPT !.abort = "fired",
                                !.cleared = @ \cup {stack[k] : k \in 1..Len(stack)}]
          /\ stack' = <<>>
     ELSE UNCHANGED <<ctl, stack>>
  /\ UNCHANGED <<status, input, vocab, history, trace, toolCalls, aborted, turns, used>>

NextQueue ==
  \/ Submit
  \/ RunEnds
  \/ Escape

SpecQueue == InitQueue /\ [][NextQueue]_vars

\* a pending runAgent call settles, and processInput is resumed
SpecQueueLive == SpecQueue /\ WF_vars(RunEnds)

\* the inputs of the events of kind e, in the order of the events
IdsOf(e) ==
  LET IsE(ev) == ev.e = e
      evs == SelectSeq(trace, IsE)
  IN [k \in 1..Len(evs) |-> evs[k].text[1]]
Started == IdsOf("start")
Ended == IdsOf("end")
InSeq(id, ids) == \E k \in 1..Len(ids) : ids[k] = id

PaddedInputs ==
  { <<" ", "/tools", " ">>, <<"/tools", " ", "x">>, <<" ", "/bogus", " ", "x">>,
    <<"/install", " ", "src", " ">>, <<" ", "/install", " ">>, <<" ", "hi", " ">>,
    <<" ">> }

InitTyped ==
  /\ status = "idle"
  /\ input \in Inputs \cup PaddedInputs
  /\ vocab \in SmallVocabularies
  /\ stack = <<>>
  /\ ctl = CtlEval
  /\ history = <<>>
  /\ trace = <<>>
  /\ toolCalls = 0
  /\ aborted = FALSE
  /\ turns = 0
  /\ used = 0

SpecTyped == InitTyped /\ [][Next]_vars

\* the input without the blanks around it, and its command
Typed == Trim(input)
IsCommand == Typed # <<>> /\ StartsWithSlash(Typed[1])
Source == Trim(Tail(Typed))
Requests == CountEv(trace, "request")
Chunk(text) == Ev("streamChunk", "", TRUE, text)
StreamDoneEv == Ev("streamDone", "", TRUE, <<>>)

\* what a command leaves behind whatever it is: no request to the model, an
\* untouched history, and a run that ends after one streamDone
CommandFrame ==
  IsCommand =>
    /\ Requests = 0
    /\ history = <<>>
    /\ ctl = CtlEval
    /\ CountEv(trace, "streamDone") <= 1
    /\ status = "returned" =>
         /\ CountEv(trace, "streamDone") = 1
         /\ trace[Len(trace)] = StreamDoneEv
         /\ stack = <<>>

\* any other input is handed to the model, trimmed
PlainInput ==
  (~IsCommand /\ status # "idle") =>
    \/ trace = <<>> /\ history = <<>> /\ stack = <<Think(Typed)>>
    \/ /\ history # <<>> /\ history[1] = Msg("user", Typed)
       /\ trace[1] = Ev("request", "", TRUE, Typed)

IsReadTok(tk) == tk = ToolTok(ReadFileA)
IsReadCall(c) == c = ReadFileA
\* the ReadFile elements of a reply: all of them, and those inside a block
ReadElements(text) == Len(SelectSeq(text, IsReadTok))
WrappedReadElements(text) == Len(SelectSeq(InnerTokens(text, FALSE), IsReadTok))
ReadCalls == Len(SelectSeq(ctl.calls, IsReadCall))
\* the executions of ReadFile among the last n effects
RecentReads(n) ==
  Cardinality({i \in At(trace, "execute") : i > Len(trace) - n /\ trace[i].name = "ReadFile"})

\* nothing but the reply's stream has happened since the last request
JustReplied ==
  \E r \in At(trace, "request") :
    \A i \in (r + 1)..Len(trace) : trace[i].e \in {"streamChunk", "streamDone"}

Refresh == [tag |-> "refresh"]

EvalState(fx, n, out) == [fx |-> fx, n |-> n, out |-> out]

\* world.signal.aborted once n awaited effects have been through
SignalAborted(st, at) == at >= 0 /\ st.n >= at

RECURSIVE evalForm(_, _, _)
RECURSIVE evalForms(_, _, _)
\* case "seq": the loop ends with the first form that raises
evalForms(forms, st, at) ==
  IF forms = <<>> \/ st.out = "aborted" THEN st
  ELSE evalForms(Tail(forms), evalForm(Head(forms), st, at), at)

evalForm(form, st, at) ==
  IF SignalAborted(st, at) THEN [st EXCEPT !.out = "aborted"]
  ELSE CASE form.tag = "nil" -> st
         [] form.tag = "done" ->
              [st EXCEPT !.fx = Append(@, Ev("complete", "", TRUE, form.summary))]
         [] form.tag = "emit" ->
              evalForm(form.then,
                       [st EXCEPT !.fx = @ \o <<Ev("streamChunk", "", TRUE, form.text),
                                                 Ev("streamDone", "", TRUE, <<>>)>>], at)
         [] form.tag = "remember" ->
              evalForm(form.then,
                       [st EXCEPT !.fx = Append(@, Ev("remember", form.content, TRUE, <<>>)),
                                  !.n = @ + 1], at)
         [] form.tag = "refresh" ->
              [st EXCEPT !.fx = Append(@, Ev("refreshSystem", "", TRUE, <<>>)), !.n = @ + 1]
         [] form.tag = "install" ->
              [st EXCEPT !.fx = @ \o <<Ev("installTool", "", TRUE, form.source),
                                        Ev("streamChunk", "", TRUE, <<"installed">>),
                                        Ev("streamDone", "", TRUE, <<>>)>>,
                         !.n = @ + 1]
         [] form.tag = "seq" -> evalForms(form.forms, st, at)

\* the forms composed, and the compositions compared
AtomForms ==
  { Nil, Done(<<"s1">>), Emit(<<"x">>, Nil), Remember("m1", Nil), Refresh,
    Install(<<"src">>), SeqForm(<<>>) }
Shapes == {"f", "fNil", "Nilf", "left", "right"}
Composed(shape, abc) ==
  CASE shape = "f" -> abc[1]
    [] shape = "fNil" -> SeqForm(<<abc[1], Nil>>)
    [] shape = "Nilf" -> SeqForm(<<Nil, abc[1]>>)
    [] shape = "left" -> SeqForm(<<SeqForm(<<abc[1], abc[2]>>), abc[3]>>)
    [] shape = "right" -> SeqForm(<<abc[1], SeqForm(<<abc[2], abc[3]>>)>>)

NotRun == EvalState(<<>>, 0, "none")

InitCompose ==
  /\ status = "composed"
  /\ input \in AtomForms \X AtomForms \X AtomForms
  /\ turns \in -1..MaxElems
  /\ ctl = [shape \in Shapes |-> NotRun]
  /\ stack = <<>>
  /\ history = <<>>
  /\ trace = <<>>
  /\ vocab = {}
  /\ toolCalls = 0
  /\ aborted = FALSE
  /\ used = 0

\* run one composition to its end, with the token firing at `turns`
Evaluate ==
  /\ \E shape \in Shapes :
       /\ ctl[shape] = NotRun
       /\ ctl' = [ctl EXCEPT ![shape] =
                    LET r == evalForm(Composed(shape, input), EvalState(<<>>, 0, "running"), turns)
                    IN [r EXCEPT !.out = IF @ = "running" THEN "returned" ELSE @]]
  /\ UNCHANGED <<status, input, vocab, stack, history, trace, toolCalls, aborted, turns, used>>

NextCompose == Evaluate

SpecCompose == InitCompose /\ [][NextCompose]_vars

Same(x, y) ==
  (ctl[x] # NotRun /\ ctl[y] # NotRun) =>
    (ctl[x].fx = ctl[y].fx /\ ctl[x].out = ctl[y].out)

\* Seq(Seq(a,b),c) and Seq(a,Seq(b,c)) perform the same effects with the
\* same outcome, whenever the token fires
SeqAssociative == Same("left", "right")

\* Seq(Nil, f) is f, whenever the token fires
NilLeftIdentity == Same("Nilf", "f")

\* C31: Seq is associative with Nil as identity under evaluation: the two
\* groupings of a, b, c perform the same effects with the same outcome, and
\* Seq(f, Nil) and Seq(Nil, f) perform the same effects and end with the
\* same outcome as f alone, in every run, the token firing or not.
\* (Violated: Seq(Refresh, Nil) raises where Refresh returns.)
C31_SeqMonoid ==
  /\ SeqAssociative
  /\ NilLeftIdentity
  /\ Same("fNil", "f")

(***************************************************************************)
(* compactMemoryEntry (system.ts 132-151).  A text is a sequence of runs,  *)
(* a run being n copies of one character; lengths are those of the text.   *)
(* Here `input` is the content given and `stack` holds the entry returned. *)
(***************************************************************************)
MAX_MEMORY_ENTRY_LENGTH == 500

Chars(c, n) == [c |-> c, n |-> n]
IsSpace(run) == run.c \in {" ", "\n"}

RECURSIVE TextLength(_)
TextLength(text) ==
  IF text = <<>> THEN 0 ELSE Head(text).n + TextLength(Tail(text))

\* String.prototype.trimEnd, trimStart and trim
RECURSIVE trimEnd(_)
trimEnd(text) ==
  IF text = <<>> THEN <<>>
  ELSE IF IsSpace(text[Len(text)]) THEN trimEnd(SubSeq(text, 1, Len(text) - 1))
  ELSE text
RECURSIVE trimStart(_)
trimStart(text) ==
  IF text = <<>> THEN <<>>
  ELSE IF IsSpace(Head(text)) THEN trimStart(Tail(text))
  ELSE text
TrimText(text) == trimEnd(trimStart(text))

\* replace(/\s+/g, " "): every maximal stretch of white space becomes one blank
RECURSIVE SingleLine(_)
SingleLine(text) ==
  IF text = <<>> THEN <<>>
  ELSE IF IsSpace(Head(text))
  THEN <<Chars(" ", 1)>> \o SingleLine(trimStart(text))
  ELSE <<Head(text)>> \o SingleLine(Tail(text))

\* slice(0, k)
RECURSIVE Slice(_, _)
Slice(text, k) ==
  IF text = <<>> \/ k <= 0 THEN <<>>
  ELSE IF Head(text).n <= k THEN <<Head(text)>> \o Slice(Tail(text), k - Head(text).n)
  ELSE <<Chars(Head(text).c, k)>>

TruncatedPrefix == Chars("[truncated] ", 12)
Ellipsis == Chars("...", 1)

\* variant: no room is kept for the ellipsis
Remaining_Full == MAX_MEMORY_ENTRY_LENGTH - TruncatedPrefix.n

\* MAX_MEMORY_ENTRY_LENGTH - prefix.length - 1 (system.ts 149)
Remaining == MAX_MEMORY_ENTRY_LENGTH - TruncatedPrefix.n - 1

compactMemoryEntry(content) ==
  LET trimmed == TrimText(content)
      singleLine == TrimText(SingleLine(trimmed))
  IN IF trimmed = <<>> THEN <<>>
     ELSE IF TextLength(trimmed) <= MAX_MEMORY_ENTRY_LENGTH THEN trimmed
     ELSE IF TextLength(singleLine) <= MAX_MEMORY_ENTRY_LENGTH THEN singleLine
     ELSE <<TruncatedPrefix>> \o trimEnd(Slice(singleLine, Max({0, Remaining}))) \o <<Ellipsis>>

\* contents: up to MaxSegs runs of a letter, blanks or newlines, each short
\* or about as long as the cap
RunLengths == {1, MAX_MEMORY_ENTRY_LENGTH - 14, MAX_MEMORY_ENTRY_LENGTH}
Runs == {Chars(c, n) : c \in {"a", " ", "\n"}, n \in RunLengths}

InitMemory ==
  /\ status = "given"
  /\ input \in UNION {[1..n -> Runs] : n \in 0..MaxSegs}
  /\ stack = <<>>
  /\ ctl = CtlEval
  /\ history = <<>>
  /\ trace = <<>>
  /\ vocab = {}
  /\ toolCalls = 0
  /\ aborted = FALSE
  /\ turns = 0
  /\ used = 0

\* appendMemory normalises the content it is given (system.ts 153-155)
Compact ==
  /\ status = "given"
  /\ status' = "compacted"
  /\ stack' = compactMemoryEntry(input)
  /\ UNCHANGED <<input, vocab, ctl, history, trace, toolCalls, aborted, turns, used>>

NextMemory == Compact

SpecMemory == InitMemory /\ [][NextMemory]_vars

HasNewline(text) == \E i \in 1..Len(text) : text[i].c = "\n"
\* the letters of a text, and the stretches of white space between letters
Letters(text) ==
  LET solid == {i \in 1..Len(text) : ~IsSpace(text[i])}
  IN [count |-> Cardinality(solid),
      gaps |-> Cardinality({i \in solid : i > 1 /\ IsSpace(text[i - 1])
                                           /\ \E j \in solid : j < i})]
\* the length of the content once trimmed
TrimmedLength(text) ==
  LET solid == {i \in 1..Len(text) : ~IsSpace(text[i])}
  IN IF solid = {} THEN 0
     ELSE LET lo == CHOOSE i \in solid : \A j \in solid : i <= j
              hi == CHOOSE i \in solid : \A j \in solid : j <= i
          IN TextLength(SubSeq(text, lo, hi))
\* the length of the content as one line
OneLineLength(text) ==
  TextLength(SelectSeq(text, LAMBDA r : ~IsSpace(r))) + Letters(text).gaps

\* C32 as stated: the result is at most 500 long; whenever the length of x
\* exceeds 500 the result contains no newline; an entry that still exceeds
\* the cap as one line starts with "[truncated] ".
\* (Violated by a short entry with a newline, padded with blanks past 500.)
C32_CompactBounded ==
  status = "compacted" =>
    /\ TextLength(stack) <= MAX_MEMORY_ENTRY_LENGTH
    /\ TextLength(input) > MAX_MEMORY_ENTRY_LENGTH => ~HasNewline(stack)
    /\ OneLineLength(input) > MAX_MEMORY_ENTRY_LENGTH =>
         (stack # <<>> /\ Head(stack) = TruncatedPrefix)

\* C32, amended: the result is at most 500 long; whenever the length of x
\* without the white space around it exceeds 500 the result contains no
\* newline; an entry that still exceeds the cap as one line starts with
\* "[truncated] ", and no other entry does.
C32_CompactTrimmedBounded ==
  status = "compacted" =>
    /\ TextLength(stack) <= MAX_MEMORY_ENTRY_LENGTH
    /\ TrimmedLength(input) > MAX_MEMORY_ENTRY_LENGTH => ~HasNewline(stack)
    /\ (OneLineLength(input) > MAX_MEMORY_ENTRY_LENGTH) =
         (stack # <<>> /\ Head(stack) = TruncatedPrefix)

\* a line of 486 letters, a newline and 500 more letters is cut after the
\* first line: the blank that replaced the newline is trimmed off again
C32_Witness ==
  /\ status = "compacted"
  /\ input = <<Chars("a", 486), Chars("\n", 1), Chars("a", 500)>>
  /\ stack = <<TruncatedPrefix, Chars("a", 486), Ellipsis>>

(***************************************************************************)
(* The headless run as a loop (headless: system.ts 470-495; core.ts        *)
(* 186-235, 349-419, 423-523).  Only what decides whether the loop goes on *)
(* is kept: `status` is where the process is, `stack` the calls of the     *)
(* batch being invoked, `toolCalls` the counter of evalInvoke, and `used`  *)
(* the number of messages in the history, counted up to MaxElems.  Neither *)
(* the world nor the effects hold a count of the turns.                    *)
(***************************************************************************)
InitHeadless ==
  /\ status = "thinking"
  /\ stack = <<>>
  /\ toolCalls = 0
  /\ used = 1
  /\ input = <<"hi">>
  /\ vocab = {}
  /\ ctl = CtlEval
  /\ history = <<>>
  /\ trace = <<>>
  /\ aborted = FALSE
  /\ turns = 0

Counted(n) == IF n > MaxElems THEN MaxElems ELSE n

\* evalThink and parseToForm: the reply has regular tool calls (Invoke with
\* a Think continuation), calls CompleteTask alone (Done), has no call
\* (Nil), or the provider raises
HeadlessThink ==
  /\ status = "thinking"
  /\ \E reply \in {"tools", "complete", "prose", "error"} :
       IF reply = "tools"
       THEN /\ \E n \in 1..MaxChunk : stack' = [k \in 1..n |-> BashLs]
            /\ status' = "invoking"
            /\ used' = Counted(used + 1)
       ELSE /\ stack' = <<>>
            /\ status' = "exited"
            /\ used' = IF reply = "error" THEN used ELSE Counted(used + 1)
  /\ UNCHANGED <<input, vocab, ctl, history, trace, toolCalls, aborted, turns>>

\* evalInvoke with tools that return: the batch is executed, the counter
\* advanced, the history pruned when due, and the continuation thinks again
HeadlessInvoke ==
  /\ status = "invoking"
  /\ LET n == toolCalls + Len(stack)
     IN /\ toolCalls' = IF PruneDue(n) THEN 0 ELSE n
        /\ \E left \in 1..used : used' = IF PruneDue(n) THEN left ELSE used
  /\ stack' = <<>>
  /\ status' = "thinking"
  /\ UNCHANGED <<input, vocab, ctl, history, trace, aborted, turns>>

NextHeadless ==
  \/ HeadlessThink
  \/ HeadlessInvoke

SpecHeadless == InitHeadless /\ [][NextHeadless]_vars

\* the provider answers and the tools return: the process keeps going
SpecHeadlessLive == SpecHeadless /\ WF_vars(NextHeadless)

\* C33: a headless run always terminates, even when the model answers every
\* turn with a regular tool call and the tools return.
\* (Violated: no cap is kept, and such a model keeps the loop going.)
C33_HeadlessTerminates == <>(status = "exited")

(***************************************************************************)
(* Escape and the input queue.                                             *)
(***************************************************************************)
\* the step fires a token that had not fired
TokenFires == ctl.abort # "fired" /\ ctl'.abort = "fired"
\* the runs that ended as aborted
AbortedRuns == {trace[i].text[1] : i \in {j \in At(trace, "end") : trace[j].name = "aborted"}}

EscapeSteps ==
  /\ TokenFires =>
       /\ ctl.active # {} /\ ctl'.active = ctl.active
       /\ stack' = <<>> /\ trace' = trace
       /\ ctl'.cleared = ctl.cleared \cup {stack[k] : k \in 1..Len(stack)}
  /\ (Started' # Started) => (ctl'.abort = "armed")
  /\ (AbortedRuns' # AbortedRuns) =>
       (ctl.abort = "fired" /\ AbortedRuns' = AbortedRuns \cup ctl.active)
  /\ (ctl.active = {}) => (ctl'.cleared = ctl.cleared /\ ~TokenFires)

\* C34: Escape during a run fires that run's token and clears the queue: an
\* input that was queued when Escape was pressed is never started; the token
\* fires only while a run is pending, starts and ends no run by itself, and
\* every run that starts gets a token that has not fired, so only the run
\* pending at the Escape can end as aborted; inputs submitted later are
\* started one at a time, in order.  While no run is pending nothing clears
\* the queue or fires a token.
C34_EscapeClearsQueue ==
  /\ [](/\ \A id \in ctl.cleared : ~InSeq(id, Started) /\ ~InSeq(id, stack)
        /\ Cardinality(ctl.active) <= 1
        /\ \A k \in 2..Len(Started) : Started[k - 1] < Started[k]
        /\ ctl.active = {} => (ctl.abort = "none" /\ stack = <<>>))
  /\ [][EscapeSteps]_vars

\* input 2 was queued when Escape was pressed during run 1; run 1 ended as
\* aborted, input 3 was submitted afterwards and is running
C34_Witness ==
  /\ ctl.cleared = {2}
  /\ Started = <<1, 3>>
  /\ AbortedRuns = {1}
  /\ ctl.active = {3}
  /\ ctl.abort = "armed"

(***************************************************************************)
(* One Think step on a reply delivered in chunks (core.ts 349-419).  Here  *)
(* `input` is the reply the provider will send, `used` the number of its   *)
(* tokens delivered so far, `ctl.fullText` what evalThink has accumulated, *)
(* `history` what the step appends and `stack` the form it evaluates next. *)
(***************************************************************************)
ReplyParts ==
  { <<Prose>>, <<ToolTok(ReadFileA)>>,
    <<Open, ToolTok(ReadFileA), Close>>, <<Open, ToolTok(BashLs), Close>> }

InitChunks ==
  /\ status = "streaming"
  /\ input \in {Flatten(parts) : parts \in UNION {[1..n -> ReplyParts] : n \in 1..MaxElems}}
  /\ used = 0
  /\ ctl = CtlThink
  /\ history = <<>>
  /\ stack = <<>>
  /\ trace = <<>>
  /\ vocab = {}
  /\ toolCalls = 0
  /\ aborted = FALSE
  /\ turns = 1

\* iter.next() yields a chunk of up to MaxChunk tokens, or all that is left
\* (core.ts 374-387); a complete block ends the loop (402-419)
ChunkArrives ==
  /\ status = "streaming"
  /\ used < Len(input)
  /\ \E k \in (1..MaxChunk) \cup {Len(input) - used} :
       /\ used + k <= Len(input)
       /\ LET fullText == ctl.fullText \o SubSeq(input, used + 1, used + k)
          IN /\ used' = used + k
             /\ ctl' = [ctl EXCEPT !.fullText = fullText]
             /\ IF hasCompleteToolBlock(fullText)
                THEN /\ history' = history \o BrokeEarlyMessage(fullText)
                     /\ stack' = <<parseToForm(fullText)>>
                     /\ status' = "parsed"
                ELSE UNCHANGED <<history, stack, status>>
  /\ UNCHANGED <<input, vocab, trace, toolCalls, aborted, turns>>

\* iter.next() reports done: the generator has pushed the whole reply
\* (part_003 325-331), evalThink parses what it has (413-419)
ReplyEnds ==
  /\ status = "streaming"
  /\ used = Len(input)
  /\ history' = Append(history, Msg("assistant", ctl.fullText))
  /\ stack' = <<parseToForm(ctl.fullText)>>
  /\ status' = "parsed"
  /\ UNCHANGED <<input, vocab, ctl, trace, toolCalls, aborted, turns, used>>

NextChunks ==
  \/ ChunkArrives
  \/ ReplyEnds

SpecChunks == InitChunks /\ [][NextChunks]_vars

BothTags(text) == (\E i \in 1..Len(text) : text[i] = Open) /\ (\E i \in 1..Len(text) : text[i] = Close)
\* what the step has read when it parses
Read == SubSeq(input, 1, used)

ParsesChunkPrefix ==
  (status = "streaming" /\ status' = "parsed") =>
    /\ ~BothTags(ctl.fullText)
    /\ ctl'.fullText = Read'
    /\ BothTags(Read') \/ Read' = input
    /\ stack' = <<parseToForm(Read')>>
    /\ history' = <<Msg("assistant", Read')>>
    /\ (\A n \in 1..(Len(input) - 1) : ~BothTags(SubSeq(input, 1, n))) =>
         (stack' = <<parseToForm(input)>> /\ history' = <<Msg("assistant", input)>>)

InitDanger ==
  /\ status = "idle"
  /\ input \in Inputs
  /\ vocab \in SmallVocabularies
               \cup {{ToolTok(BashRm), ToolTok(Call("Bash", <<<<"gloop", "--task", "rm">>>>))}}
  /\ stack = <<>>
  /\ ctl = CtlEval
  /\ history = <<>>
  /\ trace = <<>>
  /\ toolCalls = 0
  /\ aborted = FALSE
  /\ turns = 0
  /\ used = 0

SpecDanger == InitDanger /\ [][Next]_vars

\* the user has agreed to this command before effect i
ConfirmedBefore(command, i) ==
  \E j \in At(trace, "confirm") : j < i /\ trace[j].ok /\ trace[j].text = command

\* C36: no Bash call whose command holds rm or rmdir as a word causes an
\* effect, neither the execute of Bash nor effects.spawn, unless confirm was
\* called for it before and returned true; this includes the calls of the
\* form gloop --task "..." that go to a subagent.
\* (Violated: a spawn request is never put to the user.)
C36_DangerousBashConfirmed ==
  /\ \A i \in At(trace, "execute") :
       (trace[i].name = "Bash" /\ (\E w \in DANGEROUS_WORDS : \E k \in 1..Len(trace[i].text) : trace[i].text[k] = w))
         => ConfirmedBefore(trace[i].text, i)
  /\ \A i \in At(trace, "spawn") :
       trace[i].name \in DANGEROUS_WORDS
         => ConfirmedBefore(<<"gloop", "--task", trace[i].name>>, i)

(***************************************************************************)
(* The history after the token has fired in a Think step.                  *)
(***************************************************************************)
AssistantMessages == Len(SelectSeq(history, IsAssistant))

\* C37: a Think step adds at most one assistant message to the history, and
\* once the run has raised Aborted its history is not modified again, also
\* when the stream ends its last pending next() after the abort.
\* (Violated: the abandoned generator pushes the reply a second time.)
C37_OneAssistantMessage ==
  /\ [](AssistantMessages <= CountEv(trace, "request"))
  /\ [][status = "aborted" => history' = history]_vars

(***************************************************************************)
(* Effects after the token has fired.                                      *)
(***************************************************************************)
\* events with which an effect or a request starts
EffectStarts ==
  StartEvents \cup {"remember", "forget", "refreshSystem", "complete", "installTool", "listTools"}

\* C38: once the token has fired and the operation that was in flight has
\* returned, the run starts no effect before it raises Aborted: no tool
\* execute, confirm, ask, remember or forget, refreshSystem, manageContext
\* (the automatic prune after a batch included), spawn, complete or request.
\* (Violated: past the loop of a batch the refresh and the automatic prune
\* start without a look at the token.)
C38_NoEffectAfterAbort ==
  [][AfterAbort =>
       \A i \in (Len(trace) + 1)..Len(trace') : trace'[i].e \notin EffectStarts]_vars

(***************************************************************************)
(* parseResponse (parser.ts) on the characters of a text, next to the      *)
(* StreamFilter.  The texts are those of SpecNesting: prose, <tools> and   *)
(* </tools>.  They hold no memory tag, no Kimi section, no <tool> element  *)
(* and no white space, so of parseResponse's steps only the first replace  *)
(* changes them.                                                           *)
(***************************************************************************)
\* where /<\/?tools>/ first matches at or after `from`: the start and the
\* length of the match, start 0 when there is none
FirstCloser(text, from) ==
  LET o == IndexOf(text, OPENING_TAGS[1], from)
      c == IndexOf(text, CLOSING_FOR(OPENING_TAGS[1])[1], from)
  IN IF o = 0 /\ c = 0 THEN [at |-> 0, len |-> 0]
     ELSE IF c = 0 \/ (o # 0 /\ o < c) THEN [at |-> o, len |-> Len(OPENING_TAGS[1])]
     ELSE [at |-> c, len |-> Len(CLOSING_FOR(OPENING_TAGS[1])[1])]

\* remaining.replace(/<tools>([\s\S]*?)<\/?tools>/g, "") from position `from`
\* (parser.ts 20-26): each match runs from an opening tag to the first
\* <tools> or </tools> after it
RECURSIVE StripToolsBlocks(_, _)
StripToolsBlocks(text, from) ==
  LET p == IndexOf(text, OPENING_TAGS[1], from)
      q == IF p = 0 THEN [at |-> 0, len |-> 0]
           ELSE FirstCloser(text, p + Len(OPENING_TAGS[1]))
  IN IF p = 0 \/ q.at = 0 THEN SubSeq(text, from, Len(text))
     ELSE SubSeq(text, from, p - 1) \o StripToolsBlocks(text, q.at + q.len)

\* parseResponse(text).cleanText
CleanChars(text) == StripToolsBlocks(text, 1)

\* C39: the filter and the parser agree on where markup ends: when a reply
\* has been streamed and flushed, the sink has received exactly the
\* characters parseResponse leaves in cleanText, a block closed by a stray
\* <tools> and a block holding nested <tools>...</tools> included.
\* Stated for the replies whose every opening tag the parser closes.
\* (Violated: the parser ends a block at the first <tools> or </tools>, the
\* filter counts a <tools> inside a block as a nested block.)
C39_FilterAgreesWithParser ==
  (status = "flushed" /\ IndexOf(CleanChars(input), OPENING_TAGS[1], 1) = 0)
    => Emitted = CleanChars(input)

(***************************************************************************)
(* The terminal UI's tool tracking (App.processInput) under one batch of   *)
(* evalInvoke.  Here `input` is the batch, by the name of each call,       *)
(* `used` the number of calls dealt with, `ctl` the await the batch is     *)
(* suspended at, `stack` the live "running" list (liveTools), `history`    *)
(* the committed transcript entries, `trace` the toolStart and toolDone    *)
(* effects the core has called, `aborted` the token.  The effects are the  *)
(* UI's callbacks themselves (bin/index.ts 103-104).                       *)
(***************************************************************************)
\* a call of each path of the loop: AskUser, ManageContext, a name the
\* registry does not hold, a Bash command that needs confirmation, a tool
\* that runs at once
BatchNames == {"AskUser", "ManageContext", "Nope", "Bash", "ReadFile"}

InitToolUI ==
  /\ status = "running"
  /\ input \in UNION {[1..n -> BatchNames] : n \in 1..MaxElems}
  /\ vocab = {}
  /\ stack = <<>>
  /\ ctl = "head"
  /\ history = <<>>
  /\ trace = <<>>
  /\ toolCalls = 0
  /\ aborted = FALSE
  /\ turns = 0
  /\ used = 0

\* a committed entry of kind "tool"
ToolEntry(name, st, output) == [kind |-> "tool", name |-> name, status |-> st, output |-> output]

\* a committed entry of kind "assistant"
AssistantEntry(content) == [kind |-> "assistant", name |-> "", status |-> "", output |-> content]

\* prev.findIndex(t => t.name === name), 0 for -1
FindIndex(live, name) ==
  LET at == {i \in 1..Len(live) : live[i] = name}
  IN IF at = {} THEN 0 ELSE CHOOSE i \in at : \A j \in at : i <= j

\* ui.onToolStart (part_000 238-241)
onToolStart(live, name) == Append(live, name)

\* ui.onToolDone (part_000 242-251): the live list and the transcript it leaves
onToolDone(live, committed, name, ok, output) ==
  LET idx == FindIndex(live, name)
      st == IF ok THEN "success" ELSE IF output = "denied by user" THEN "denied" ELSE "error"
  IN IF idx = 0 THEN [live |-> live, committed |-> committed]
     ELSE [live |-> SubSeq(live, 1, idx - 1) \o SubSeq(live, idx + 1, Len(live)),
           committed |-> Append(committed, ToolEntry(name, st, output))]

\* the catch of processInput (part_000 270-296) for the error the run threw
CatchRun(live, committed, isAbort) ==
  IF isAbort
  THEN [live |-> <<>>,
        committed |-> committed
                        \o [i \in 1..Len(live) |-> ToolEntry(live[i], "error", "interrupted")]
                        \o <<AssistantEntry("[Interrupted]")>>]
  ELSE [live |-> live, committed |-> Append(committed, AssistantEntry("error"))]

AtHead == status = "running" /\ ctl = "head" /\ used < Len(input) /\ ~aborted
CurName == input[used + 1]

\* fx.toolStart(name, ...) then an await
StartTool(stage) ==
  /\ stack' = onToolStart(stack, CurName)
  /\ trace' = Append(trace, Ev("toolStart", CurName, TRUE, <<>>))
  /\ ctl' = stage
  /\ UNCHANGED <<status, input, vocab, history, toolCalls, aborted, turns, used>>

\* fx.toolDone(name, ok, output) then continue
DoneTool(ok, output) ==
  LET r == onToolDone(stack, history, CurName, ok, output)
  IN /\ stack' = r.live
     /\ history' = r.committed
     /\ trace' = Append(trace, Ev("toolDone", CurName, ok, <<output>>))
     /\ ctl' = "head"
     /\ used' = used + 1
     /\ UNCHANGED <<status, input, vocab, toolCalls, aborted, turns>>

\* the run rejects: processInput's catch
RunThrows(isAbort) ==
  LET r == CatchRun(stack, history, isAbort)
  IN /\ stack' = r.live
     /\ history' = r.committed
     /\ status' = IF isAbort THEN "aborted" ELSE "error"
     /\ UNCHANGED <<input, vocab, ctl, trace, toolCalls, aborted, turns, used>>

\* core.ts 438-441
AskStart == AtHead /\ CurName = "AskUser" /\ StartTool("asking")

\* core.ts 441-444: onAskUser's promise only ever resolves (part_000 254)
AskAnswered == status = "running" /\ ctl = "asking" /\ DoneTool(TRUE, "answered")

\* core.ts 448-451
ManageStart == AtHead /\ CurName = "ManageContext" /\ StartTool("forking")

\* core.ts 451-454
ManageReturns == status = "running" /\ ctl = "forking" /\ DoneTool(TRUE, "pruned")

\* the fork's run rejects, on a provider error (part_005 103 has no catch):
\* the await of core.ts 451 throws and the run rejects with it
ManageThrows == status = "running" /\ ctl = "forking" /\ RunThrows(FALSE)

\* core.ts 457-463
UnknownTool == AtHead /\ CurName = "Nope" /\ DoneTool(FALSE, "Unknown tool: Nope")

\* core.ts 466-475: the await of fx.confirm
ConfirmStart ==
  /\ AtHead
  /\ CurName = "Bash"
  /\ ctl' = "confirming"
  /\ UNCHANGED <<status, input, vocab, stack, history, trace, toolCalls, aborted, turns, used>>

\* core.ts 476-480
ConfirmDenied == status = "running" /\ ctl = "confirming" /\ DoneTool(FALSE, "denied by user")

\* core.ts 475, 483-486
ConfirmApproved == status = "running" /\ ctl = "confirming" /\ StartTool("executing")

\* core.ts 483-486 for a call that needs no confirmation
ExecuteStart == AtHead /\ CurName = "ReadFile" /\ StartTool("executing")

\* core.ts 488-502
ExecuteReturns ==
  /\ status = "running"
  /\ ctl = "executing"
  /\ \/ DoneTool(TRUE, "ok")
     \/ DoneTool(FALSE, "failed")

\* Escape (part_000 325-330): the token fires, whatever the batch awaits
TokenAborts ==
  /\ status = "running"
  /\ ~aborted
  /\ aborted' = TRUE
  /\ UNCHANGED <<status, input, vocab, stack, ctl, history, trace, toolCalls, turns, used>>

\* core.ts 436 and 274: AbortError at the head of the loop or of eval_
HeadAborts == status = "running" /\ ctl = "head" /\ aborted /\ RunThrows(TRUE)

\* past the batch the run goes on and returns
RunReturns ==
  /\ status = "running"
  /\ ctl = "head"
  /\ used = Len(input)
  /\ ~aborted
  /\ status' = "returned"
  /\ UNCHANGED <<input, vocab, stack, ctl, history, trace, toolCalls, aborted, turns, used>>

\* past the batch the next request fails with a provider error
NextThinkThrows ==
  /\ status = "running"
  /\ ctl = "head"
  /\ used = Len(input)
  /\ ~aborted
  /\ RunThrows(FALSE)

NextToolUI ==
  \/ AskStart
  \/ AskAnswered
  \/ ManageStart
  \/ ManageReturns
  \/ ManageThrows
  \/ UnknownTool
  \/ ConfirmStart
  \/ ConfirmDenied
  \/ ConfirmApproved
  \/ ExecuteStart
  \/ ExecuteReturns
  \/ TokenAborts
  \/ HeadAborts
  \/ RunReturns
  \/ NextThinkThrows

SpecToolUI == InitToolUI /\ [][NextToolUI]_vars

\* the outcomes reported through toolDone, and the committed outcomes that
\* are no "interrupted" entry, as <<name, status, output>>
IsOutcomeEntry(en) == en.kind = "tool" /\ en.output # "interrupted"
ReportedOutcomes ==
  LET done == SelectSeq(trace, IsToolDone)
  IN [i \in 1..Len(done) |->
        <<done[i].name,
          IF done[i].ok THEN "success"
          ELSE IF done[i].text = <<"denied by user">> THEN "denied" ELSE "error",
          done[i].text[1]>>]
CommittedOutcomes ==
  LET en == SelectSeq(history, IsOutcomeEntry)
  IN [i \in 1..Len(en) |-> <<en[i].name, en[i].status, en[i].output>>]

\* the run is over and nothing is left in the live list
LiveListEmpty == status \in {"returned", "aborted", "error"} => stack = <<>>

\* each reported outcome is in the transcript, once, in order
OutcomesCommitted == CommittedOutcomes = ReportedOutcomes

\* C40: after a run has ended for any reason (it returned, it raised
\* Aborted, it raised another error such as a provider error inside a
\* ManageContext fork) no tool is left in the live "running" list, and every
\* outcome reported through toolDone, the unknown-tool and denied ones
\* included, is committed to the transcript exactly once.
\* (Violated: an error that is no AbortError leaves the live list as it is;
\* a toolDone without a toolStart before it commits nothing.)
C40_ToolTracking ==
  /\ LiveListEmpty
  /\ OutcomesCommitted

====
